---- MODULE Spec2Model ----
(***************************************************************************)
(* CoAct-1: the orchestration control loop (coact_1.py, CoAct1.run), the   *)
(* event broadcaster (CoAct1.broadcast_event, CoAct1.websocket_handler)    *)
(* and the runner that wraps them (main.py, main).                         *)
(*                                                                         *)
(* One asyncio event loop runs the control task (main -> run) and one      *)
(* handler task per websocket connection.  A task only loses the processor *)
(* at an await that really suspends, so the handler tasks act only while   *)
(* the control task is at one of AwaitPoints.                              *)
(***************************************************************************)
EXTENDS Integers, Sequences, FiniteSets, TLC

\* ---------------------------------------------------------------- bounds
MaxConns == 2            \* websocket connections made during one run
MaxRouted == 2           \* delegations routed to a delegate during one run
MaxCaptureFailures == 1  \* failing screenshot captures during one run
MaxSkips == 1            \* unrecognised targets in a run that is cut short
MaxToolCalls == 3        \* tool calls of the visual actor during one delegation
MaxParts == 4            \* segments of a content list given to the injection
MaxDetections == 2       \* detections the engine returns for one screenshot
MaxTurns == 3            \* turns a delegate appends to its sub-history
MaxCoord == 2            \* a polygon's vertex coordinates are in 0..MaxCoord
MaxGroundingCalls == 2   \* grounding calls the visual actor starts in one delegation

\* ------------------------------------------------------ program constants
MaxSteps == 10           \* for i in range(10)

Conns == 1..MaxConns

\* What the environment does at most during one run: how many connections are
\* made, how many delegations the planner routes, how many captures fail, how
\* many unrecognised targets the planner names, whether the planner may
\* yield several function calls in one turn, whether it delegates only
\* once it has named all its unrecognised targets, and how many grounding
\* calls the visual actor starts in one delegation.  A run follows one of
\* Scenarios: long runs without observers, a long run with one observer,
\* short runs with observer churn, a short run of delegations with failing
\* captures, and a run of one delegation with grounding calls.
Scenario(conns, nrouted, fails, skips, several, skipsFirst, grounding) ==
  [conns |-> conns, routed |-> nrouted, fails |-> fails, skips |-> skips,
   several |-> several, skipsFirst |-> skipsFirst, grounding |-> grounding]

Scenarios ==
  {Scenario(0, MaxRouted, 0, MaxSteps - MaxRouted, FALSE, TRUE, 0),
   Scenario(0, 1, MaxCaptureFailures, MaxSteps, FALSE, FALSE, 0),
   Scenario(1, 0, 0, MaxSteps, FALSE, FALSE, 0),
   Scenario(1, 1, MaxCaptureFailures, MaxSkips, TRUE, FALSE, 0),
   Scenario(MaxConns, 0, 0, MaxSkips, FALSE, FALSE, 0),
   Scenario(0, MaxRouted, MaxCaptureFailures, 0, FALSE, FALSE, 0),
   Scenario(0, 1, 0, 0, FALSE, FALSE, MaxGroundingCalls)}

UNBOUND == 0             \* a local variable that was never assigned
AllIdle == {}            \* agent_state payload: the roles marked "processing"

\* ------------------------------------------------------------- data model
\* An output item of the planner / a turn of the coordinator history.
Item(type, name, call_id, image, text) ==
  [type |-> type, name |-> name, call_id |-> call_id, image |-> image, text |-> text]

FunctionCall(name, call_id) == Item("function_call", name, call_id, 0, "")
Message == Item("message", "", 0, 0, "")
NoDelegation == Item("none", "", 0, 0, "")

\* the user turn appended in Observing (image = 0: the text-only turn)
UserTurn(image) == Item("user", "", 0, image, "next_subtask")
ResultTurnUntagged(call_id, final_message, image) ==
  Item("function_call_output", "", 0, image, final_message)
\* the function_call_output turn appended in Summarizing
ResultTurn(call_id, final_message, image) ==
  Item("function_call_output", "", call_id, image, final_message)

\* A broadcast event: {type, data}; data is abstracted to the step, the set
\* of roles marked processing (agent_state) and a tag (screenshot type, reason).
Ev(type, step, processing, tag) ==
  [type |-> type, step |-> step, processing |-> processing, tag |-> tag]

ToolNames == {"task_completed", "delegate_to_programmer",
              "delegate_to_gui_operator", "open_browser"}

\* What orchestrator.run may yield for one planning call: a sequence of
\* result batches, each a sequence of output items.
PlannerOutputs(id) ==
  {<< >>, << <<Message>> >>}
    \cup {<< <<FunctionCall(t, id)>> >> : t \in ToolNames}
    \cup {<< <<Message>>, <<Message, FunctionCall(t, id), FunctionCall(u, id + 100)>> >> :
            t \in ToolNames, u \in {"task_completed", "delegate_to_programmer"}}
    \cup {<< <<FunctionCall(t, id), Message>>, <<FunctionCall(u, id + 100)>> >> :
            t \in ToolNames, u \in {"task_completed", "delegate_to_programmer"}}

\* the function_call items of one planner output
RECURSIVE CountCalls(_)
CountCalls(results) ==
  IF results = << >> THEN 0
  ELSE Cardinality({n \in 1..Len(Head(results)) : Head(results)[n].type = "function_call"})
         + CountCalls(Tail(results))

LastInBatch(output) ==
  LET calls == {n \in 1..Len(output) : output[n].type = "function_call"}
  IN IF calls = {} THEN NoDelegation
     ELSE output[CHOOSE n \in calls : \A m \in calls : m <= n]

\* lines 317-324: the first function_call item in output order
RECURSIVE FirstInBatch(_)
FirstInBatch(output) ==
  IF output = << >> THEN NoDelegation
  ELSE IF Head(output).type = "function_call" THEN Head(output)
  ELSE FirstInBatch(Tail(output))

RECURSIVE FirstFunctionCall(_)
FirstFunctionCall(results) ==
  IF results = << >> THEN NoDelegation
  ELSE LET d == FirstInBatch(Head(results))
       IN IF d # NoDelegation THEN d ELSE FirstFunctionCall(Tail(results))

\* ---------------------------------------------------------------- state
VARIABLES
  budget,                  \* the scenario of this run
  pc,                      \* position of the control task (main -> run)
  i,                       \* the loop variable of run
  orchestrator_history,
  current_screenshot_b64,
  final_screenshot_b64,
  delegation,
  sub_agent,               \* "" | "Programmer" | "GUIOperator"
  sub_agent_history,
  error,                   \* the exception that left run ("none" if none)
  outcome,                 \* how run ended
  websocket_clients,       \* CoAct1.websocket_clients
  conn,                    \* per connection: its state and its handler's
  serverUp,                \* the websocket server accepts connections
  bc,                      \* the frame of the broadcast_event call in progress
  published,               \* every event the control task passed to broadcast_event
  resetPending,            \* a handler emptied the registry and no event was published since
  shots,                   \* successful captures so far (a capture's identity)
  plannerCalls, captures, captureFailures, routed, skipped, delegateRuns,
  obsFailed,               \* the Observing capture of this iteration failed
  finishAt,                \* step at which the planner issued task_completed (0: not yet)
  capturesAtFinish,
  callsOffered,            \* function_call items in the planner's last output
  fresh,                   \* per connection: first message after a registry reset
  handlerResets,           \* ui_reset broadcasts attempted by handlers
  connectedAtRunEnd,       \* connections open when run returned or raised
  resetDelivered           \* connections that received the shutdown ui_reset

ctrlVars == <<i, orchestrator_history, current_screenshot_b64, final_screenshot_b64,
              delegation, sub_agent, sub_agent_history, error, outcome>>
obsVars == <<websocket_clients, conn, serverUp>>
pubVars == <<bc, published, resetPending>>
countVars == <<budget, callsOffered, shots, plannerCalls, captures, captureFailures, routed, skipped,
               delegateRuns, obsFailed, finishAt, capturesAtFinish>>
ghostVars == <<fresh, handlerResets, connectedAtRunEnd, resetDelivered>>
runVars == <<pc, ctrlVars, obsVars, pubVars, countVars, ghostVars>>

\* The visual actor (GUI operator) and its grounding index, seen from inside
\* one delegation.
VARIABLES
  guiPc,                   \* position of the visual actor's step loop
  messages,                \* the history the actor's runtime keeps for this delegation
  ocr_engine,              \* OCRProcessorCallback.ocr_engine: "None" or "engine"
  ocr_results,             \* OCRProcessorCallback.ocr_results
  returned,                \* what the last proxy operation returned or raised
  performed,               \* what the last proxy operation did to the environment
  lastCall,                \* the last proxy operation and what it found
  computed,                \* the last computation of the grounding set
  lastRun,                 \* what the engine did in the last on_llm_start
  shown                    \* the history the last on_llm_start returned

guiVars == <<guiPc, messages, ocr_engine, ocr_results, returned, performed, lastCall, computed,
             lastRun, shown>>

\* One application of a function of the program to an argument, studied on
\* its own.
VARIABLES
  applied                  \* the function, its argument and what it returned

fnVars == <<applied>>
vars == <<runVars, guiVars, fnVars>>

\* ------------------------------------------- the visual actor's data model
\* Optional[T]: None or a value
None == << >>
Some(v) == <<v>>

NoShot == 0              \* no screenshot (None)

\* A content part: a text segment or an image reference to a screenshot.  png
\* tells whether the reference is a "data:image/png;base64," URL whose payload
\* decodes to an image.
TextPart(text) == [type |-> "text", shot |-> NoShot, png |-> FALSE, text |-> text]
ImagePart(type, shot, png) == [type |-> type, shot |-> shot, png |-> png, text |-> ""]

\* A turn of the actor's history; the output of a computer_call_output is
\* held as its only part.
Turn(kind, parts) == [kind |-> kind, parts |-> parts]

\* the seed turn of a delegation: subtask text, then the screenshot
SeedMessage(shot) ==
  Turn("user", <<TextPart("subtask"), ImagePart("image_url", shot, TRUE)>>)
\* the screenshot that follows a computer action
ScreenshotOutput(shot, png) ==
  Turn("computer_call_output", <<ImagePart("input_image", shot, png)>>)
\* the string a function tool returned
ToolOutput == Turn("function_call_output", <<TextPart("result")>>)

\* One detection of the engine: text, confidence (in hundredths) and polygon.
Detection(txt, score, box) == [txt |-> txt, score |-> score, box |-> box]
Rect(x1, y1, x2, y2) == <<<<x1, y1>>, <<x2, y1>>, <<x2, y2>>, <<x1, y2>>>>

\* What the engine may return for a screenshot: None, a result without
\* texts, or detections.
EngineResult(kind, dets) == [kind |-> kind, dets |-> dets]
EngineResults ==
  {EngineResult("none", << >>),
   EngineResult("no_txts", << >>),
   EngineResult("detections", << >>),
   EngineResult("detections", <<Detection("OK", 95, Rect(10, 10, 50, 30)),
                                Detection("Cancel", 50, Rect(60, 10, 120, 30))>>),
   EngineResult("detections", <<Detection("Cancel", 50, Rect(60, 10, 120, 30)),
                                Detection("File", 99, Rect(5, 2, 40, 17)),
                                Detection("", 95, <<<<61, 42>>, <<121, 40>>, <<120, 61>>, <<60, 60>>>>)>>),
   EngineResult("detections", <<Detection("Save", 90, Rect(60, 10, 120, 30)),
                                Detection("Edit", 91, Rect(45, 2, 80, 17))>>)}

\* One run of _perform_ocr: the engine returns a result, or something raises
\* (the engine's initialisation, the conversion of the image, the detection).
EngineOutcome(kind, result) == [kind |-> kind, result |-> result]
EngineOutcomes ==
  {EngineOutcome("result", r) : r \in EngineResults}
    \cup {EngineOutcome(k, EngineResult("none", << >>)) :
            k \in {"init_raises", "convert_raises", "call_raises"}}

\* What a proxy operation hands back: a string (form, naming an ID, a label
\* and coordinates as the f-string does), the environment's value, or an
\* exception.
Ret(kind, form, id, label, x, y) ==
  [kind |-> kind, form |-> form, id |-> id, label |-> label, x |-> x, y |-> y]
NoRet == Ret("none", "", None, None, None, None)

\* an operation performed on the environment
EnvOp(op, x, y) == [op |-> op, x |-> x, y |-> y]

Call(op, id, found, envFailed, setShot, seenShot) ==
  [op |-> op, id |-> id, found |-> found, envFailed |-> envFailed,
   setShot |-> setShot, seenShot |-> seenShot]
NoCall == Call("", None, FALSE, FALSE, NoShot, NoShot)

Computation(count, prev, out, shot) ==
  [count |-> count, prev |-> prev, out |-> out, shot |-> shot]

\* on_llm_start did not reach the engine
NoRun == EngineOutcome("not_run", EngineResult("none", << >>))

\* a scroll request and what the real interface offers
ScrollRequest(x, y, scroll_x, scroll_y, has_scroll_down, has_scroll_up) ==
  [x |-> x, y |-> y, scroll_x |-> scroll_x, scroll_y |-> scroll_y,
   has_scroll_down |-> has_scroll_down, has_scroll_up |-> has_scroll_up]

\* The objects of one call: the lists of messages, the message dicts (a kind
\* and the address of a content list) and the content lists, each kind of
\* object at the addresses 1, 2, ... of its own sequence.
Heap(lists, dicts, contents) == [lists |-> lists, dicts |-> dicts, contents |-> contents]
EmptyHeap == Heap(<< >>, << >>, << >>)

\* The function applied (fn), with its argument and result: messages and
\* ocr_text give shown (_inject_ocr_into_messages; before and after are the
\* objects before and after the call, input and output the addresses of the
\* list it was given and of the list it returned), result gives results
\* (_perform_ocr), request gives op (scroll), history gives final_message
\* (_extract_sub_agent_final_message).
NoApplication ==
  [fn |-> "", messages |-> << >>, ocr_text |-> "", shown |-> << >>,
   result |-> EngineResult("none", << >>), results |-> {},
   request |-> ScrollRequest(0, 0, 0, 0, FALSE, FALSE), op |-> EnvOp("", None, None),
   history |-> << >>, final_message |-> "",
   before |-> EmptyHeap, after |-> EmptyHeap, input |-> 0, output |-> 0]

\* no function is studied on its own
FnIdle == applied = NoApplication

\* while the control loop is modelled, the visual actor is not
GuiIdle ==
  /\ guiPc = "idle"
  /\ messages = << >>
  /\ ocr_engine = "None"
  /\ ocr_results = {}
  /\ returned = NoRet
  /\ performed = << >>
  /\ lastCall = NoCall
  /\ computed = Computation(0, {}, {}, NoShot)
  /\ lastRun = NoRun
  /\ shown = << >>

IdleBc == [ev |-> Ev("", 0, {}, ""), ret |-> "", exc |-> "", size |-> 0,
           snap |-> {}, visited |-> {}, failed |-> {}, delivered |-> {}, target |-> 0]

\* The awaits at which the control task can be suspended.
AwaitPoints == {"run_sleep", "run_initialize", "observing", "planning", "executing",
                "summarizing", "bc_send", "main_computer_stop", "ws_aexit_wait"}

Init ==
  /\ budget \in Scenarios
  /\ pc = "main_start"
  /\ i = 0
  /\ orchestrator_history = << >>
  /\ current_screenshot_b64 = UNBOUND
  /\ final_screenshot_b64 = UNBOUND
  /\ delegation = NoDelegation
  /\ sub_agent = ""
  /\ sub_agent_history = << >>
  /\ error = "none"
  /\ outcome = "running"
  /\ websocket_clients = {}
  /\ conn = [w \in Conns |-> "new"]
  /\ serverUp = FALSE
  /\ bc = IdleBc
  /\ published = << >>
  /\ resetPending = FALSE
  /\ shots = 0
  /\ plannerCalls = 0
  /\ captures = 0
  /\ captureFailures = 0
  /\ routed = 0
  /\ skipped = 0
  /\ delegateRuns = 0
  /\ obsFailed = FALSE
  /\ finishAt = 0
  /\ capturesAtFinish = 0
  /\ callsOffered = 0
  /\ fresh = [w \in Conns |-> "n/a"]
  /\ handlerResets = 0
  /\ connectedAtRunEnd = {}
  /\ resetDelivered = {}
  /\ GuiIdle
  /\ FnIdle


\* ------------------------------------------------- the event broadcaster
\* broadcast_event, lines 152-169: the call up to the first send.  With no
\* client it returns at once, without suspending the caller.
Publish(ev, ret, exc) ==
  /\ published' = Append(published, ev)
  /\ resetPending' = FALSE
  /\ IF websocket_clients = {}
       THEN /\ pc' = ret
            /\ bc' = IdleBc
       ELSE /\ pc' = "bc_next"
            /\ bc' = [IdleBc EXCEPT !.ev = ev, !.ret = ret, !.exc = exc,
                                    !.size = Cardinality(websocket_clients),
                                    !.snap = websocket_clients]

\* The set iterator of "for client in self.websocket_clients" refuses to go
\* on once the set's size differs from the size it started with.
SetChangedSize(size, clients) == Cardinality(clients) # size

\* line 170: the loop head.  It raises RuntimeError (outside the try of lines
\* 171-176) when the set changed size, else yields a client not yet visited.
\* A client added during the iteration may or may not be reached.  When the
\* iterator is exhausted, lines 179-180 discard the clients whose send failed.
BcNext ==
  /\ pc = "bc_next"
  /\ IF SetChangedSize(bc.size, websocket_clients)
       THEN /\ pc' = "bc_raise"
            /\ UNCHANGED <<bc, websocket_clients>>
       ELSE \/ \E c \in websocket_clients \ bc.visited :
                 /\ bc' = [bc EXCEPT !.target = c, !.visited = @ \cup {c}]
                 /\ pc' = "bc_send"
                 /\ UNCHANGED websocket_clients
            \/ /\ (websocket_clients \ bc.visited) \cap bc.snap = {}
               /\ websocket_clients' = websocket_clients \ bc.failed
               /\ pc' = "bc_return"
               /\ UNCHANGED bc
  /\ UNCHANGED <<ctrlVars, conn, serverUp, published, resetPending, countVars, ghostVars>>
  /\ UNCHANGED <<guiVars, fnVars>>

\* lines 171-176: await client.send(json_message).  The send to an open
\* connection completes, the send to a closed one raises and is caught; the
\* send to a connection whose peer has stopped reading does not complete.
SendCompletes(state) == state # "slow"

BcSend ==
  /\ pc = "bc_send"
  /\ SendCompletes(conn[bc.target])
  /\ IF conn[bc.target] = "open"
       THEN /\ bc' = [bc EXCEPT !.delivered = @ \cup {bc.target}]
            /\ fresh' = [fresh EXCEPT ![bc.target] =
                           IF @ = "awaiting"
                             THEN (IF bc.ev.type = "ui_reset" THEN "reset" ELSE "other")
                             ELSE @]
            /\ resetDelivered' = IF bc.ev.type = "ui_reset" /\ bc.ev.tag = "server_shutdown"
                                   THEN resetDelivered \cup {bc.target}
                                   ELSE resetDelivered
       ELSE /\ bc' = [bc EXCEPT !.failed = @ \cup {bc.target}]
            /\ UNCHANGED <<fresh, resetDelivered>>
  /\ pc' = "bc_next"
  /\ UNCHANGED <<ctrlVars, obsVars, published, resetPending, countVars,
                 handlerResets, connectedAtRunEnd>>
  /\ UNCHANGED <<guiVars, fnVars>>

\* broadcast_event returns to its caller
BcReturn ==
  /\ pc = "bc_return"
  /\ pc' = bc.ret
  /\ bc' = IdleBc
  /\ UNCHANGED <<ctrlVars, obsVars, published, resetPending, countVars, ghostVars>>
  /\ UNCHANGED <<guiVars, fnVars>>

\* the RuntimeError leaves broadcast_event; it is caught in Observing
\* (line 308) and in main (line 80), and leaves run everywhere else
BcRaise ==
  /\ pc = "bc_raise"
  /\ pc' = bc.exc
  /\ bc' = IdleBc
  /\ error' = IF bc.exc = "run_raised" THEN "RuntimeError" ELSE error
  /\ outcome' = IF bc.exc = "run_raised" THEN "raised" ELSE outcome
  /\ UNCHANGED <<i, orchestrator_history, current_screenshot_b64, final_screenshot_b64,
                 delegation, sub_agent, sub_agent_history>>
  /\ UNCHANGED <<obsVars, published, resetPending, countVars, ghostVars>>
  /\ UNCHANGED <<guiVars, fnVars>>

\* ------------------------------------------------ the connection handlers
\* websocket_handler, lines 89-92: a new connection is registered and its
\* handler waits for it to close.  Connections are numbered in the order in
\* which they are made.
Connect(w) ==
  /\ pc \in AwaitPoints
  /\ serverUp
  /\ conn[w] = "new"
  /\ w <= budget.conns
  /\ \A v \in Conns : v < w => conn[v] # "new"
  /\ websocket_clients' = websocket_clients \cup {w}
  /\ conn' = [conn EXCEPT ![w] = "open"]
  /\ fresh' = [fresh EXCEPT ![w] = IF resetPending THEN "awaiting" ELSE "n/a"]
  /\ UNCHANGED <<pc, ctrlVars, serverUp, pubVars, countVars,
                 handlerResets, connectedAtRunEnd, resetDelivered>>
  /\ UNCHANGED <<guiVars, fnVars>>

\* the peer of an open connection stops reading while a message is being
\* sent to it (its send buffer is full)
Stall(w) ==
  /\ pc = "bc_send"
  /\ bc.target = w
  /\ conn[w] = "open"
  /\ conn' = [conn EXCEPT ![w] = "slow"]
  /\ UNCHANGED <<pc, ctrlVars, websocket_clients, serverUp, pubVars, countVars, ghostVars>>
  /\ UNCHANGED <<guiVars, fnVars>>

\* the connection closes; its handler is woken but has not run yet
Close(w) ==
  /\ pc \in AwaitPoints
  /\ conn[w] \in {"open", "slow"}
  /\ conn' = [conn EXCEPT ![w] = "closed"]
  /\ UNCHANGED <<pc, ctrlVars, websocket_clients, serverUp, pubVars, countVars, ghostVars>>
  /\ UNCHANGED <<guiVars, fnVars>>

\* websocket_handler, lines 93-104: set.remove raises KeyError when
\* broadcast_event has already discarded the connection; otherwise, when the
\* registry is now empty, a ui_reset is broadcast (to the empty registry, so
\* broadcast_event returns at line 157).
HandlerFinally(w) ==
  /\ pc \in AwaitPoints
  /\ conn[w] = "closed"
  /\ IF w \in websocket_clients
       THEN /\ websocket_clients' = websocket_clients \ {w}
            /\ conn' = [conn EXCEPT ![w] = "done"]
            /\ IF websocket_clients' = {}
                 THEN /\ handlerResets' = handlerResets + 1
                      /\ resetPending' = TRUE
                 ELSE UNCHANGED <<handlerResets, resetPending>>
       ELSE /\ conn' = [conn EXCEPT ![w] = "crashed"]
            /\ UNCHANGED <<websocket_clients, handlerResets, resetPending>>
  /\ UNCHANGED <<pc, ctrlVars, serverUp, bc, published, countVars,
                 fresh, connectedAtRunEnd, resetDelivered>>
  /\ UNCHANGED <<guiVars, fnVars>>


\* --------------------------------------------------- delegate sub-history
\* The content of a turn is a string or a list of typed parts.
StrContent(str) == [kind |-> "str", str |-> str, parts |-> << >>]
ListContent(parts) == [kind |-> "list", str |-> "", parts |-> parts]

\* A turn of a sub-history; role is "" for an item without a role
\* (function_call, function_call_output).
SubTurn(type, role, content, image) ==
  [type |-> type, role |-> role, content |-> content, image |-> image]

\* lines 398-404: the single seed turn of a delegate's sub-history
SeedTurn(image) == SubTurn("", "user", ListContent(<<"text", "image_url">>), image)

ExtendedSubHistory(previous, image) == Append(previous, SeedTurn(image))
\* lines 398-404: sub_agent_history = [{...}], whatever it held before
NewSubHistory(previous, image) == <<SeedTurn(image)>>

\* What a delegate's run may append to its sub-history (lines 408-409).
DelegateOutputs ==
  {<<SubTurn("function_call", "", StrContent(""), 0),
     SubTurn("function_call_output", "", StrContent("ok"), 0),
     SubTurn("message", "assistant", ListContent(<<"output_text">>), 0)>>,
   <<SubTurn("message", "assistant", StrContent("done"), 0),
     SubTurn("message", "assistant", ListContent(<<"text", "tool_use">>), 0)>>,
   <<SubTurn("function_call", "", StrContent(""), 0),
     SubTurn("message", "assistant", StrContent("made a function_call"), 0)>>}

NoCompletionMessage == "Sub-agent completed task (no explicit completion message found)"

\* str(content), line 254
RECURSIVE Join(_)
Join(parts) ==
  IF parts = << >> THEN ""
  ELSE IF Len(parts) = 1 THEN "{" \o parts[1] \o "}"
  ELSE "{" \o parts[1] \o "}, " \o Join(Tail(parts))

Str(content) ==
  IF content.kind = "str" THEN content.str ELSE "[" \o Join(content.parts) \o "]"

\* lines 243-250: the message carries a function call
HasFunctionCalls(content) ==
  IF content.kind = "list"
    THEN \E n \in 1..Len(content.parts) : content.parts[n] \in {"tool_use", "function_call"}
    ELSE content.str \in {"made a function_call", "used tool_use"}

\* line 253: "and content"
Truthy(content) ==
  IF content.kind = "list" THEN content.parts # << >> ELSE content.str # ""

\* _extract_sub_agent_final_message, lines 236-257: the content of the last
\* assistant message without a function call, else the fixed sentinel
RECURSIVE ExtractFinalMessage(_)
ExtractFinalMessage(history) ==
  IF history = << >> THEN NoCompletionMessage
  ELSE LET message == history[Len(history)]
       IN IF /\ message.role = "assistant"
             /\ ~HasFunctionCalls(message.content)
             /\ Truthy(message.content)
            THEN Str(message.content)
            ELSE ExtractFinalMessage(SubSeq(history, 1, Len(history) - 1))

\* ------------------------------------------------------ the control loop
HistoryOverwrite(history, turn) ==
  IF history = << >> THEN <<turn>> ELSE [history EXCEPT ![Len(history)] = turn]
\* orchestrator_history.append(turn), lines 300, 310, 338 and 449
HistoryAppend(history, turn) == Append(history, turn)

\* line 288: for i in range(10)
InRangeOffByOne(j) == j <= MaxSteps
InRange(j) == j < MaxSteps

\* the loop head: the next iteration's Observing, or past the loop (line 453)
LoopHead(j) ==
  IF InRange(j)
    THEN [pc |-> "observing", i |-> j, outcome |-> "running"]
    ELSE [pc |-> "run_returned", i |-> j, outcome |-> "exhausted"]

\* the end of the loop body and the continue of line 382
EndOfBody(j) == LoopHead(j + 1)

\* line 354: break after the task_completed event
AfterFinishNoBreak(j) == EndOfBody(j)
AfterFinish(j) == [pc |-> "run_returned", i |-> j, outcome |-> "completed"]

\* lines 326-328: break when the planner issued no delegation
AfterAbstainContinue(j) == EndOfBody(j)
AfterAbstain(j) == [pc |-> "run_returned", i |-> j, outcome |-> "abstained"]

\* lines 408-411: the delegate's run is awaited to its end, then Summarizing
AfterExecuteSkipSummary(j) == EndOfBody(j)
AfterExecute(j) == [pc |-> "summarizing", i |-> j, outcome |-> "running"]

\* line 408: nothing in run catches what the delegate raises
AfterDelegateRaiseCaught(j) == [pc |-> "summarizing", i |-> j, outcome |-> "running"]
AfterDelegateRaise(j) == [pc |-> "run_raised", i |-> j, outcome |-> "raised"]

\* lines 340, 358, 369, 380: where a delegation is routed
RouteUnknownToGui(tool_name) ==
  CASE tool_name = "task_completed" -> "finish"
    [] tool_name = "delegate_to_programmer" -> "Programmer"
    [] OTHER -> "GUIOperator"
Route(tool_name) ==
  CASE tool_name = "task_completed" -> "finish"
    [] tool_name = "delegate_to_programmer" -> "Programmer"
    [] tool_name = "delegate_to_gui_operator" -> "GUIOperator"
    [] OTHER -> "unknown"

\* main.py line 66 reached: the environment is up and CoAct1 is constructed
MainStart ==
  /\ pc = "main_start"
  /\ pc' = "run_aenter"
  /\ UNCHANGED <<ctrlVars, obsVars, pubVars, countVars, ghostVars>>
  /\ UNCHANGED <<guiVars, fnVars>>

\* run, line 264: the websocket server starts to accept connections
RunStartServer ==
  /\ pc = "run_aenter"
  /\ serverUp' = TRUE
  /\ pc' = "run_sleep"
  /\ UNCHANGED <<ctrlVars, websocket_clients, conn, pubVars, countVars, ghostVars>>
  /\ UNCHANGED <<guiVars, fnVars>>

\* run, lines 267-274: after the sleep, user_task_started
RunTaskStarted ==
  /\ pc = "run_sleep"
  /\ Publish(Ev("user_task_started", 0, {}, ""), "run_state", "run_raised")
  /\ UNCHANGED <<ctrlVars, obsVars, countVars, ghostVars>>
  /\ UNCHANGED <<guiVars, fnVars>>

\* run, lines 277-282: agent_state, orchestrator processing
RunAgentState ==
  /\ pc = "run_state"
  /\ Publish(Ev("agent_state", 0, {"orchestrator"}, ""), "run_initialize", "run_raised")
  /\ UNCHANGED <<ctrlVars, obsVars, countVars, ghostVars>>
  /\ UNCHANGED <<guiVars, fnVars>>

\* run, lines 283-288: the handler is initialised and the loop is entered
RunEnterLoop ==
  /\ pc = "run_initialize"
  /\ orchestrator_history' = << >>
  /\ pc' = LoopHead(0).pc
  /\ i' = LoopHead(0).i
  /\ outcome' = LoopHead(0).outcome
  /\ UNCHANGED <<current_screenshot_b64, final_screenshot_b64, delegation, sub_agent,
                 sub_agent_history, error>>
  /\ UNCHANGED <<obsVars, pubVars, countVars, ghostVars>>
  /\ UNCHANGED <<guiVars, fnVars>>

\* Observing, lines 293-298: the capture succeeds and is broadcast; an
\* exception of the broadcast is caught by the except of line 308
ObserveOk ==
  /\ pc = "observing"
  /\ shots' = shots + 1
  /\ captures' = captures + 1
  /\ current_screenshot_b64' = shots + 1
  /\ obsFailed' = FALSE
  /\ Publish(Ev("screenshot_update", i + 1, {}, "current"), "obs_append", "obs_except")
  /\ UNCHANGED <<i, orchestrator_history, final_screenshot_b64, delegation, sub_agent,
                 sub_agent_history, error, outcome>>
  /\ UNCHANGED <<obsVars, ghostVars, budget, callsOffered, plannerCalls, captureFailures, routed, skipped, delegateRuns,
                 finishAt, capturesAtFinish>>
  /\ UNCHANGED <<guiVars, fnVars>>

\* Observing, lines 300-307: the turn with the image
ObserveAppend ==
  /\ pc = "obs_append"
  /\ orchestrator_history' = HistoryAppend(orchestrator_history, UserTurn(current_screenshot_b64))
  /\ pc' = "planning"
  /\ UNCHANGED <<i, current_screenshot_b64, final_screenshot_b64, delegation, sub_agent,
                 sub_agent_history, error, outcome>>
  /\ UNCHANGED <<obsVars, pubVars, countVars, ghostVars>>
  /\ UNCHANGED <<guiVars, fnVars>>

\* Observing, lines 308-313: the text-only turn after an exception that the
\* broadcast of the screenshot raised
ObserveExcept ==
  /\ pc = "obs_except"
  /\ orchestrator_history' = HistoryAppend(orchestrator_history, UserTurn(0))
  /\ pc' = "planning"
  /\ UNCHANGED <<i, current_screenshot_b64, final_screenshot_b64, delegation, sub_agent,
                 sub_agent_history, error, outcome>>
  /\ UNCHANGED <<obsVars, pubVars, countVars, ghostVars>>
  /\ UNCHANGED <<guiVars, fnVars>>

\* Observing, lines 294 and 308-313: the capture raises; current_screenshot_b64
\* keeps what it held (nothing, on the first iteration)
ObserveFail ==
  /\ pc = "observing"
  /\ captureFailures < budget.fails
  /\ captures' = captures + 1
  /\ captureFailures' = captureFailures + 1
  /\ obsFailed' = TRUE
  /\ orchestrator_history' = HistoryAppend(orchestrator_history, UserTurn(0))
  /\ pc' = "planning"
  /\ UNCHANGED <<i, current_screenshot_b64, final_screenshot_b64, delegation, sub_agent,
                 sub_agent_history, error, outcome>>
  /\ UNCHANGED <<obsVars, pubVars, ghostVars, budget, callsOffered, shots, plannerCalls, routed, skipped, delegateRuns,
                 finishAt, capturesAtFinish>>
  /\ UNCHANGED <<guiVars, fnVars>>

\* Planning, lines 315-382: the planner is called once; its first
\* function_call is the delegation, which is appended and routed
Plan ==
  /\ pc = "planning"
  /\ \E results \in PlannerOutputs(plannerCalls + 1) :
       LET d == FirstFunctionCall(results)
           target == Route(d.name)
       IN /\ (d # NoDelegation /\ target \in {"Programmer", "GUIOperator"})
                => /\ routed < budget.routed
                   /\ budget.skipsFirst => skipped = budget.skips
          /\ (d # NoDelegation /\ target = "unknown") => skipped < budget.skips
          /\ CountCalls(results) > 1 => budget.several
          /\ plannerCalls' = plannerCalls + 1
          /\ callsOffered' = CountCalls(results)
          /\ delegation' = d
          /\ IF d = NoDelegation
               THEN \* lines 326-328
                    /\ pc' = AfterAbstain(i).pc
                    /\ i' = AfterAbstain(i).i
                    /\ outcome' = AfterAbstain(i).outcome
                    /\ UNCHANGED <<orchestrator_history, sub_agent, pubVars, routed,
                                   skipped, finishAt, capturesAtFinish>>
               ELSE /\ orchestrator_history' = HistoryAppend(orchestrator_history, d)
                    /\ CASE target = "finish" ->
                              /\ Publish(Ev("agent_state", i + 1, AllIdle, ""),
                                         "finish_event", "run_raised")
                              /\ finishAt' = i + 1
                              /\ capturesAtFinish' = captures
                              /\ UNCHANGED <<i, outcome, sub_agent, routed, skipped>>
                         [] target \in {"Programmer", "GUIOperator"} ->
                              /\ sub_agent' = target
                              /\ routed' = routed + 1
                              /\ Publish(Ev("agent_state", i + 1,
                                            IF target = "Programmer" THEN {"programmer"}
                                                                     ELSE {"gui_operator"}, ""),
                                         "delegated", "run_raised")
                              /\ UNCHANGED <<i, outcome, skipped, finishAt, capturesAtFinish>>
                         [] OTHER ->
                              /\ sub_agent' = ""
                              /\ skipped' = skipped + 1
                              /\ pc' = EndOfBody(i).pc
                              /\ i' = EndOfBody(i).i
                              /\ outcome' = EndOfBody(i).outcome
                              /\ UNCHANGED <<pubVars, routed, finishAt, capturesAtFinish>>
  /\ UNCHANGED <<current_screenshot_b64, final_screenshot_b64, sub_agent_history, error>>
  /\ UNCHANGED <<obsVars, ghostVars, budget, shots, captures, captureFailures, delegateRuns,
                 obsFailed>>
  /\ UNCHANGED <<guiVars, fnVars>>

\* Finishing, lines 349-353: the task_completed event
FinishEvent ==
  /\ pc = "finish_event"
  /\ Publish(Ev("task_completed", i + 1, {}, ""), "finish_break", "run_raised")
  /\ UNCHANGED <<ctrlVars, obsVars, countVars, ghostVars>>
  /\ UNCHANGED <<guiVars, fnVars>>

\* Finishing, line 354
FinishBreak ==
  /\ pc = "finish_break"
  /\ pc' = AfterFinish(i).pc
  /\ i' = AfterFinish(i).i
  /\ outcome' = AfterFinish(i).outcome
  /\ UNCHANGED <<orchestrator_history, current_screenshot_b64, final_screenshot_b64,
                 delegation, sub_agent, sub_agent_history, error>>
  /\ UNCHANGED <<obsVars, pubVars, countVars, ghostVars>>
  /\ UNCHANGED <<guiVars, fnVars>>

\* Delegating, lines 385-394: the task_delegated event
Delegated ==
  /\ pc = "delegated"
  /\ Publish(Ev("task_delegated", i + 1, {}, sub_agent), "build_sub_history", "run_raised")
  /\ UNCHANGED <<ctrlVars, obsVars, countVars, ghostVars>>
  /\ UNCHANGED <<guiVars, fnVars>>

\* Delegating, lines 398-404: the sub-history is seeded with
\* current_screenshot_b64; reading it unassigned raises UnboundLocalError
BuildSubHistory ==
  /\ pc = "build_sub_history"
  /\ IF current_screenshot_b64 = UNBOUND
       THEN /\ error' = "UnboundLocalError"
            /\ outcome' = "raised"
            /\ pc' = "run_raised"
            /\ UNCHANGED sub_agent_history
       ELSE /\ sub_agent_history' = NewSubHistory(sub_agent_history,
                                                   current_screenshot_b64)
            /\ pc' = "executing"
            /\ UNCHANGED <<error, outcome>>
  /\ UNCHANGED <<i, orchestrator_history, current_screenshot_b64, final_screenshot_b64,
                 delegation, sub_agent>>
  /\ UNCHANGED <<obsVars, pubVars, countVars, ghostVars>>
  /\ UNCHANGED <<guiVars, fnVars>>

\* Executing, lines 408-409: the delegate runs to completion
Execute ==
  /\ pc = "executing"
  /\ \E output \in DelegateOutputs :
       sub_agent_history' = sub_agent_history \o output
  /\ delegateRuns' = delegateRuns + 1
  /\ pc' = AfterExecute(i).pc
  /\ i' = AfterExecute(i).i
  /\ outcome' = AfterExecute(i).outcome
  /\ UNCHANGED <<orchestrator_history, current_screenshot_b64, final_screenshot_b64,
                 delegation, sub_agent, error>>
  /\ UNCHANGED <<obsVars, pubVars, ghostVars, budget, callsOffered, shots, plannerCalls, captures, captureFailures,
                 routed, skipped, obsFailed, finishAt, capturesAtFinish>>
  /\ UNCHANGED <<guiVars, fnVars>>

GroundingStateWithOperator(coordinates) ==
  IF coordinates = None THEN {"gui_operator", "grounding_model"} ELSE {"gui_operator"}
\* broadcast_grounding_call, lines 200-215: the role marked processing when a
\* grounding call starts (coordinates is None) and when it has completed
GroundingState(coordinates) ==
  IF coordinates = None THEN {"grounding_model"} ELSE {"gui_operator"}

\* the grounding_update events of the iteration under way
GroundingUpdates ==
  {n \in 1..Len(published) :
     published[n].type = "grounding_update" /\ published[n].step = i + 1}

\* the last grounding call of this delegation has started and not completed
GroundingPending ==
  /\ GroundingUpdates # {}
  /\ published[CHOOSE n \in GroundingUpdates : \A m \in GroundingUpdates : m <= n].tag
       = "started"

\* Executing, line 408: the visual actor's runtime reports a grounding call
\* through broadcast_grounding_call (lines 197-215), when it starts it and
\* when it has its coordinates: first the agent_state event
GroundingCall ==
  /\ pc = "executing"
  /\ sub_agent = "GUIOperator"
  /\ \E coordinates \in {None, Some(<<5, 7>>)} :
       /\ IF coordinates = None
            THEN Cardinality({n \in GroundingUpdates : published[n].tag = "started"})
                   < budget.grounding
            ELSE GroundingPending
       /\ Publish(Ev("agent_state", i + 1, GroundingState(coordinates), ""),
                  "grounding_update", "run_raised")
  /\ UNCHANGED <<ctrlVars, obsVars, countVars, ghostVars>>
  /\ UNCHANGED <<guiVars, fnVars>>

\* broadcast_grounding_call, lines 217-224: then the grounding_update event
GroundingUpdate ==
  /\ pc = "grounding_update"
  /\ Publish(Ev("grounding_update", i + 1, {},
                IF published[Len(published)].processing = GroundingState(None)
                  THEN "started" ELSE "completed"),
             "executing", "run_raised")
  /\ UNCHANGED <<ctrlVars, obsVars, countVars, ghostVars>>
  /\ UNCHANGED <<guiVars, fnVars>>

\* Executing, line 408: the delegate raises, and nothing in run catches it
ExecuteRaise ==
  /\ pc = "executing"
  /\ delegateRuns' = delegateRuns + 1
  /\ error' = "DelegateError"
  /\ pc' = AfterDelegateRaise(i).pc
  /\ i' = AfterDelegateRaise(i).i
  /\ outcome' = AfterDelegateRaise(i).outcome
  /\ UNCHANGED <<orchestrator_history, current_screenshot_b64, final_screenshot_b64,
                 delegation, sub_agent, sub_agent_history>>
  /\ UNCHANGED <<obsVars, pubVars, ghostVars, budget, callsOffered, shots, plannerCalls, captures, captureFailures,
                 routed, skipped, obsFailed, finishAt, capturesAtFinish>>
  /\ UNCHANGED <<guiVars, fnVars>>

\* Summarizing, lines 411-414: the final capture succeeds and is broadcast
SummarizeShotOk ==
  /\ pc = "summarizing"
  /\ shots' = shots + 1
  /\ captures' = captures + 1
  /\ final_screenshot_b64' = shots + 1
  /\ Publish(Ev("screenshot_update", i + 1, {}, "previous"), "sum_state", "run_raised")
  /\ UNCHANGED <<i, orchestrator_history, current_screenshot_b64, delegation, sub_agent,
                 sub_agent_history, error, outcome>>
  /\ UNCHANGED <<obsVars, ghostVars, budget, callsOffered, plannerCalls, captureFailures, routed, skipped, delegateRuns,
                 obsFailed, finishAt, capturesAtFinish>>
  /\ UNCHANGED <<guiVars, fnVars>>

\* Summarizing, line 411: the final capture raises, outside any try
SummarizeShotFail ==
  /\ pc = "summarizing"
  /\ captureFailures < budget.fails
  /\ captures' = captures + 1
  /\ captureFailures' = captureFailures + 1
  /\ error' = "ScreenshotError"
  /\ outcome' = "raised"
  /\ pc' = "run_raised"
  /\ UNCHANGED <<i, orchestrator_history, current_screenshot_b64, final_screenshot_b64,
                 delegation, sub_agent, sub_agent_history>>
  /\ UNCHANGED <<obsVars, pubVars, ghostVars, budget, callsOffered, shots, plannerCalls, routed, skipped, delegateRuns,
                 obsFailed, finishAt, capturesAtFinish>>
  /\ UNCHANGED <<guiVars, fnVars>>

\* Summarizing, lines 421-427: agent_state, orchestrator processing
SummarizeAgentState ==
  /\ pc = "sum_state"
  /\ Publish(Ev("agent_state", i + 1, {"orchestrator"}, ""), "sum_event", "run_raised")
  /\ UNCHANGED <<ctrlVars, obsVars, countVars, ghostVars>>
  /\ UNCHANGED <<guiVars, fnVars>>

SummarizeEventZeroBased ==
  /\ pc = "sum_event"
  /\ Publish(Ev("subtask_completed", i, {}, sub_agent), "sum_append", "run_raised")
  /\ UNCHANGED <<ctrlVars, obsVars, countVars, ghostVars>>
  /\ UNCHANGED <<guiVars, fnVars>>

\* Summarizing, lines 429-436: the subtask_completed event
SummarizeEvent ==
  /\ pc = "sum_event"
  /\ Publish(Ev("subtask_completed", i + 1, {}, sub_agent), "sum_append", "run_raised")
  /\ UNCHANGED <<ctrlVars, obsVars, countVars, ghostVars>>
  /\ UNCHANGED <<guiVars, fnVars>>

\* Summarizing, lines 418 and 438-453: the result turn, then the next iteration
SummarizeAppend ==
  /\ pc = "sum_append"
  /\ orchestrator_history' =
       HistoryAppend(orchestrator_history,
              ResultTurn(delegation.call_id, ExtractFinalMessage(sub_agent_history),
                         final_screenshot_b64))
  /\ pc' = EndOfBody(i).pc
  /\ i' = EndOfBody(i).i
  /\ outcome' = EndOfBody(i).outcome
  /\ UNCHANGED <<current_screenshot_b64, final_screenshot_b64, delegation, sub_agent,
                 sub_agent_history, error>>
  /\ UNCHANGED <<obsVars, pubVars, countVars, ghostVars>>
  /\ UNCHANGED <<guiVars, fnVars>>

\* ----------------------------------------------------------- the runner
\* main.py, lines 66-73: run has returned or raised; the finally clause
\* begins with the stop of the environment
RunEnds ==
  /\ pc \in {"run_returned", "run_raised"}
  /\ connectedAtRunEnd' = {w \in Conns : conn[w] \in {"open", "slow"}}
  /\ pc' = "main_computer_stop"
  /\ UNCHANGED <<ctrlVars, obsVars, pubVars, countVars, fresh, handlerResets, resetDelivered>>
  /\ UNCHANGED <<guiVars, fnVars>>

\* stop_websocket_server, lines 128-130: __aexit__ of websockets.serve stops
\* accepting, closes every open connection and waits for their handlers
StopServer ==
  /\ pc = "main_computer_stop"
  /\ serverUp' = FALSE
  /\ conn' = [w \in Conns |-> IF conn[w] \in {"open", "slow"} THEN "closed" ELSE conn[w]]
  /\ pc' = "ws_aexit_wait"
  /\ UNCHANGED <<ctrlVars, websocket_clients, pubVars, countVars, ghostVars>>
  /\ UNCHANGED <<guiVars, fnVars>>

\* stop_websocket_server, lines 134-139: the ui_reset of the shutdown; what it
\* raises is caught by main.py line 80
ShutdownReset ==
  /\ pc = "ws_aexit_wait"
  /\ \A w \in Conns : conn[w] # "closed"
  /\ Publish(Ev("ui_reset", 0, {}, "server_shutdown"), "ws_close_clients", "main_done")
  /\ UNCHANGED <<ctrlVars, obsVars, countVars, ghostVars>>
  /\ UNCHANGED <<guiVars, fnVars>>

\* stop_websocket_server, lines 142-149
CloseClients ==
  /\ pc = "ws_close_clients"
  /\ websocket_clients' = {}
  /\ pc' = "main_done"
  /\ UNCHANGED <<ctrlVars, conn, serverUp, pubVars, countVars, ghostVars>>
  /\ UNCHANGED <<guiVars, fnVars>>

\* ------------------------------------------------- the grounding index
\* _extract_latest_screenshot, lines 106-115 and 118-128: the last part of
\* the given type that is a PNG data URL and decodes
RECURSIVE LastPngPart(_, _)
LastPngPart(parts, type) ==
  IF parts = << >> THEN NoShot
  ELSE LET content_item == parts[Len(parts)]
       IN IF content_item.type = type /\ content_item.png
            THEN content_item.shot
            ELSE LastPngPart(SubSeq(parts, 1, Len(parts) - 1), type)

\* _extract_latest_screenshot, lines 93-130: walking from the end, the first
\* user turn or computer_call_output that yields an image
RECURSIVE ExtractLatestScreenshot(_)
ExtractLatestScreenshot(msgs) ==
  IF msgs = << >> THEN NoShot
  ELSE LET message == msgs[Len(msgs)]
           image == CASE message.kind = "user" ->
                           LastPngPart(message.parts, "image_url")
                      [] message.kind = "computer_call_output" ->
                           LastPngPart(message.parts, "input_image")
                      [] OTHER -> NoShot
       IN IF image # NoShot
            THEN image
            ELSE ExtractLatestScreenshot(SubSeq(msgs, 1, Len(msgs) - 1))

\* the most recent screenshot in the history, whatever its encoding: what the
\* actor has last been shown
RECURSIVE LatestImage(_)
LatestImage(msgs) ==
  IF msgs = << >> THEN NoShot
  ELSE LET parts == msgs[Len(msgs)].parts
           images == {n \in 1..Len(parts) : parts[n].type \in {"image_url", "input_image"}}
       IN IF images # {}
            THEN parts[CHOOSE n \in images : \A m \in images : m <= n].shot
            ELSE LatestImage(SubSeq(msgs, 1, Len(msgs) - 1))

MinOf(S) == CHOOSE m \in S : \A n \in S : m <= n
MaxOf(S) == CHOOSE m \in S : \A n \in S : n <= m

FirstAndThirdVertex(box) == <<box[1][1], box[1][2], box[3][1], box[3][2]>>
\* check_ocr_result, lines 56-63: the box (x1, y1, x2, y2) of a polygon
BoundingBox(box) ==
  LET x_coords == {box[n][1] : n \in 1..Len(box)}
      y_coords == {box[n][2] : n \in 1..Len(box)}
  IN <<MinOf(x_coords), MinOf(y_coords), MaxOf(x_coords), MaxOf(y_coords)>>

\* check_ocr_result, lines 34 and 53: score > text_threshold
TextThreshold == 90
Retained(score) == score > TextThreshold

RECURSIVE RetainedDetections(_)
RetainedDetections(dets) ==
  IF dets = << >> THEN << >>
  ELSE (IF Retained(Head(dets).score)
          THEN <<[content |-> Head(dets).txt, bbox |-> BoundingBox(Head(dets).box)]>>
          ELSE << >>)
       \o RetainedDetections(Tail(dets))

\* check_ocr_result, lines 34-65: the retained (text, box) pairs in
\* detection order
CheckOcrResult(result) ==
  IF result.kind \in {"none", "no_txts"} THEN << >> ELSE RetainedDetections(result.dets)

EnumerateFromOne(pairs) ==
  {[id |-> n, content |-> pairs[n].content, bbox |-> pairs[n].bbox] : n \in 1..Len(pairs)}

\* _perform_ocr, lines 156-158: ID -> (content, bbox), IDs from enumerate
Enumerate(pairs) ==
  {[id |-> n - 1, content |-> pairs[n].content, bbox |-> pairs[n].bbox] : n \in 1..Len(pairs)}

\* _perform_ocr, lines 132-164: what raises inside the try gives the empty
\* set; the engine's initialisation and the conversion of the image are
\* outside the try
PerformOcr(engine_run) ==
  CASE engine_run.kind \in {"init_raises", "convert_raises"} -> [raised |-> TRUE, results |-> {}]
    [] engine_run.kind = "call_raises" -> [raised |-> FALSE, results |-> {}]
    [] OTHER -> [raised |-> FALSE, results |-> Enumerate(CheckOcrResult(engine_run.result))]

Ids(results) == {e.id : e \in results}

\* _format_ocr_text, lines 176-180: one line per entry, in the order of the
\* dict (the order of the IDs)
RECURSIVE ListingLines(_)
ListingLines(results) ==
  IF results = {} THEN ""
  ELSE LET e == CHOOSE x \in results : \A y \in results : x.id <= y.id
       IN "\nID " \o ToString(e.id) \o ": \"" \o e.content \o "\""
            \o ListingLines(results \ {e})

FormatListingOnly(results) == "OCR-DETECTED TEXT ELEMENTS:" \o ListingLines(results)
\* _format_ocr_text, lines 166-180
FormatOcrText(results) ==
  IF results = {}
    THEN "OCR-DETECTED TEXT ELEMENTS: None found"
    ELSE "OCR-DETECTED TEXT ELEMENTS:" \o ListingLines(results)

\* _inject_ocr_into_messages, lines 213-216: the injected text segment
InjectedText(ocr_text) == TextPart("\n" \o ocr_text \o "\n")

ImagesOf(content) == {n \in 1..Len(content) : content[n].type = "image_url"}
TextsOf(content) == {n \in 1..Len(content) : content[n].type = "text"}

\* _inject_ocr_into_messages, lines 198-217: the image at which images_seen
\* reaches total_images
LastImage(content) == MaxOf(ImagesOf(content))

AppendToContent(content, ocr_text) == Append(content, InjectedText(ocr_text))

\* _inject_ocr_into_messages, lines 197-229, for one content list: the
\* listing follows the last image; without an image it is prepended to the
\* first text segment; without either the content is left as it is
InjectIntoContent(content, ocr_text) ==
  IF ImagesOf(content) # {}
    THEN SubSeq(content, 1, LastImage(content))
           \o <<InjectedText(ocr_text)>>
           \o SubSeq(content, LastImage(content) + 1, Len(content))
    ELSE IF TextsOf(content) # {}
      THEN [content EXCEPT ![MinOf(TextsOf(content))] =
              TextPart(ocr_text \o "\n\n" \o @.text)]
      ELSE content

\* only the user turns are rewritten (line 196); the others are copied
InjectsInto(message) == message.kind = "user"

\* _inject_ocr_into_messages, lines 182-237
InjectOcrIntoMessages(msgs, ocr_text) ==
  [n \in 1..Len(msgs) |->
     IF InjectsInto(msgs[n])
       THEN Turn(msgs[n].kind, InjectIntoContent(msgs[n].parts, ocr_text))
       ELSE msgs[n]]

\* the objects that hold a history: one list at address 1, and one dict and
\* one content list per turn
HeapOf(msgs) ==
  Heap(<<[n \in 1..Len(msgs) |-> n]>>,
       [n \in 1..Len(msgs) |-> [kind |-> msgs[n].kind, content |-> n]],
       [n \in 1..Len(msgs) |-> msgs[n].parts])

\* the history a list object holds
Deref(heap, list) ==
  [n \in 1..Len(heap.lists[list]) |->
     LET message == heap.dicts[heap.lists[list][n]]
     IN Turn(message.kind, heap.contents[message.content])]

\* objects[address] = value; the address after the last allocates
Store(objects, address, value) ==
  IF address = Len(objects) + 1 THEN Append(objects, value)
  ELSE [objects EXCEPT ![address] = value]

SameAddress(objects, old) == old
\* lines 201 and 231: new_content = [] and message.copy() are new objects
NewAddress(objects, old) == Len(objects) + 1

\* _inject_ocr_into_messages, lines 195-235: the loop over the given list,
\* from its k-th message on, appending to the list at address out
RECURSIVE InjectLoop(_, _, _, _, _)
InjectLoop(heap, list, out, k, ocr_text) ==
  IF k > Len(heap.lists[list]) THEN heap
  ELSE LET m == heap.lists[list][k]
           message == heap.dicts[m]
       IN IF InjectsInto(message)
            THEN LET new_content == NewAddress(heap.contents, message.content)
                     contents == Store(heap.contents, new_content,
                                       InjectIntoContent(heap.contents[message.content],
                                                         ocr_text))
                     modified_message == NewAddress(heap.dicts, m)
                     dicts == Store(heap.dicts, modified_message,
                                    [message EXCEPT !.content = new_content])
                     lists == [heap.lists EXCEPT ![out] = Append(@, modified_message)]
                 IN InjectLoop(Heap(lists, dicts, contents), list, out, k + 1, ocr_text)
            ELSE InjectLoop([heap EXCEPT !.lists[out] = Append(@, m)],
                            list, out, k + 1, ocr_text)

\* _inject_ocr_into_messages on the list at address list: line 194 makes
\* modified_messages, line 237 returns it
InjectOnHeap(heap, list, ocr_text) ==
  LET modified_messages == Len(heap.lists) + 1
  IN [heap |-> InjectLoop([heap EXCEPT !.lists = Append(@, << >>)],
                          list, modified_messages, 1, ocr_text),
      ret |-> modified_messages]

\* on_llm_start, line 257: self.ocr_results = ...
MergeInto(old, new) == new \cup {e \in old : e.id \notin Ids(new)}
Replace(old, new) == new

\* get_ocr_bbox, lines 268-280
GetOcrBboxOrOrigin(results, ocr_id) ==
  IF ocr_id \in Ids(results)
    THEN Some((CHOOSE e \in results : e.id = ocr_id).bbox)
    ELSE Some(<<0, 0, 0, 0>>)
GetOcrBbox(results, ocr_id) ==
  IF ocr_id \in Ids(results)
    THEN Some((CHOOSE e \in results : e.id = ocr_id).bbox)
    ELSE None

\* get_ocr_content, lines 282-294
GetOcrContent(results, ocr_id) ==
  IF ocr_id \in Ids(results)
    THEN Some((CHOOSE e \in results : e.id = ocr_id).content)
    ELSE None

\* ------------------------------------------ the restricted capability proxy
ClickKinds == {"click_ocr_text", "right_click_ocr_text", "double_click_ocr_text"}

\* GUIOperator.py lines 116, 146, 176: the interface operation each tool uses
InterfaceClick(kind) ==
  CASE kind = "click_ocr_text" -> "left_click"
    [] kind = "right_click_ocr_text" -> "right_click"
    [] kind = "double_click_ocr_text" -> "double_click"

\* GUIOperator.py lines 111-112: (x1 + x2) // 2
CenterCeil(a, b) == (a + b + 1) \div 2
Center(a, b) == (a + b) \div 2

\* GUIOperator.py line 117: content or f"ID {ocr_id}"
LabelOf(results, ocr_id) ==
  LET content == GetOcrContent(results, ocr_id)
  IN IF content = None \/ content = Some("")
       THEN "ID " \o ToString(ocr_id)
       ELSE content[1]

\* GUIOperator.py line 193: the proxy is always given the OCR callback
HasOcrCallback == TRUE

\* click_ocr_text, right_click_ocr_text, double_click_ocr_text
\* (GUIOperator.py lines 92-180): what is returned and what is done to the
\* environment, the environment's click succeeding (envOk) or raising
ClickOcrText(results, kind, ocr_id, envOk) ==
  IF ~HasOcrCallback
    THEN [ret |-> Ret("str", "no_callback", None, None, None, None), performed |-> << >>]
    ELSE
      LET bbox == GetOcrBbox(results, ocr_id)
      IN IF bbox = None
           THEN [ret |-> Ret("str", "not_found", Some(ocr_id), None, None, None),
                 performed |-> << >>]
           ELSE
             LET center_x == Center(bbox[1][1], bbox[1][3])
                 center_y == Center(bbox[1][2], bbox[1][4])
             IN IF envOk
                  THEN [ret |-> Ret("str", "clicked", None, Some(LabelOf(results, ocr_id)),
                                    Some(center_x), Some(center_y)),
                        performed |-> <<EnvOp(InterfaceClick(kind), Some(center_x),
                                              Some(center_y))>>]
                  ELSE [ret |-> Ret("str", "click_error", Some(ocr_id), None, None, None),
                        performed |-> << >>]

\* GUIOperator.py lines 61 and 68: max(1, amount // 100), amount >= 0
ClicksFloored(amount) == amount \div 100
Clicks(amount) == MaxOf({1, amount \div 100})

Abs(n) == IF n < 0 THEN -n ELSE n

\* GuiInterfaceProxy.scroll, GUIOperator.py lines 56-75: the operation asked
\* of the real interface; has_scroll_down and has_scroll_up are the hasattr
\* tests of lines 62 and 69
Scroll(x, y, scroll_x, scroll_y, has_scroll_down, has_scroll_up) ==
  IF scroll_y > 0
    THEN IF has_scroll_down
           THEN EnvOp("scroll_down", Some(Clicks(scroll_y)), None)
           ELSE EnvOp("scroll", Some(x), Some(y))
    ELSE IF scroll_y < 0
      THEN IF has_scroll_up
             THEN EnvOp("scroll_up", Some(Clicks(Abs(scroll_y))), None)
             ELSE EnvOp("scroll", Some(x), Some(y))
      ELSE EnvOp("scroll", Some(x), Some(y))

\* the operations GuiInterfaceProxy forwards (GUIOperator.py lines 39-88)
ForwardOps == {"left_click", "type_text", "press_key", "screenshot"}

\* IDs the actor may name
NamedIds == 0..2

\* One delegation to the GUI operator is under way: the control task is
\* suspended at line 408 of run, in its first iteration, without observers.
AtGuiDelegation ==
  /\ budget = Scenario(0, 1, MaxCaptureFailures, MaxSteps, FALSE, FALSE, 0)
  /\ pc = "executing"
  /\ i = 0
  /\ orchestrator_history = <<UserTurn(1), FunctionCall("delegate_to_gui_operator", 1)>>
  /\ current_screenshot_b64 = 1
  /\ final_screenshot_b64 = UNBOUND
  /\ delegation = FunctionCall("delegate_to_gui_operator", 1)
  /\ sub_agent = "GUIOperator"
  /\ sub_agent_history = <<SeedTurn(1)>>
  /\ error = "none"
  /\ outcome = "running"
  /\ websocket_clients = {}
  /\ conn = [w \in Conns |-> "new"]
  /\ serverUp = TRUE
  /\ bc = IdleBc
  /\ published = <<Ev("user_task_started", 0, {}, ""),
                   Ev("agent_state", 0, {"orchestrator"}, ""),
                   Ev("screenshot_update", 1, {}, "current"),
                   Ev("agent_state", 1, {"gui_operator"}, ""),
                   Ev("task_delegated", 1, {}, "GUIOperator")>>
  /\ resetPending = FALSE
  /\ shots = 1
  /\ plannerCalls = 1
  /\ captures = 1
  /\ captureFailures = 0
  /\ routed = 1
  /\ skipped = 0
  /\ delegateRuns = 0
  /\ obsFailed = FALSE
  /\ finishAt = 0
  /\ capturesAtFinish = 0
  /\ callsOffered = 1
  /\ fresh = [w \in Conns |-> "n/a"]
  /\ handlerResets = 0
  /\ connectedAtRunEnd = {}
  /\ resetDelivered = {}

\* The actor's history holds the seed turn of the delegation.  The GUI
\* operator and its OCR callback are built once (coact_1.py line 73), so the
\* grounding set may be what an earlier delegation left.
InitGui ==
  /\ AtGuiDelegation
  /\ FnIdle
  /\ guiPc = "llm_start"
  /\ messages = <<SeedMessage(current_screenshot_b64)>>
  /\ ocr_results \in {PerformOcr(EngineOutcome("result", r)).results : r \in EngineResults}
  /\ ocr_engine \in {"None", "engine"}
  /\ ocr_results # {} => ocr_engine = "engine"
  /\ returned = NoRet
  /\ performed = << >>
  /\ lastCall = NoCall
  /\ computed = Computation(0, {}, ocr_results, NoShot)
  /\ lastRun = NoRun
  /\ shown = << >>

\* on_llm_start, lines 239-266: the grounding set is recomputed from the
\* screenshot extracted from the history; without one it is left as it is.
\* An exception of _perform_ocr leaves on_llm_start.
OnLlmStart ==
  /\ guiPc = "llm_start"
  /\ LET screenshot == ExtractLatestScreenshot(messages)
     IN IF screenshot = NoShot
          THEN /\ guiPc' = "acting"
               /\ lastRun' = NoRun
               /\ shown' = messages
               /\ UNCHANGED <<ocr_engine, ocr_results, computed>>
          ELSE \E engine_run \in EngineOutcomes :
                 LET ocr == PerformOcr(engine_run)
                 IN \* _initialize_ocr_engine, lines 88-91
                    /\ engine_run.kind = "init_raises" => ocr_engine = "None"
                    /\ ocr_engine' = IF engine_run.kind = "init_raises"
                                       THEN "None" ELSE "engine"
                    /\ lastRun' = engine_run
                    /\ IF ocr.raised
                         THEN /\ guiPc' = "raised"
                              /\ UNCHANGED <<ocr_results, computed, shown>>
                         ELSE /\ ocr_results' = Replace(ocr_results, ocr.results)
                              /\ computed' = Computation(computed.count + 1,
                                                         Ids(ocr_results), ocr.results,
                                                         screenshot)
                              /\ shown' = InjectOcrIntoMessages(messages,
                                                                FormatOcrText(ocr_results'))
                              /\ guiPc' = "acting"
  /\ UNCHANGED <<messages, returned, performed, lastCall, runVars, fnVars>>

\* The actor calls one of the click-by-ID tools; its string result is
\* appended to the history.
ClickById(kind, ocr_id) ==
  /\ guiPc = "acting"
  /\ Len(messages) <= MaxToolCalls
  /\ \E envOk \in BOOLEAN :
       LET out == ClickOcrText(ocr_results, kind, ocr_id, envOk)
           found == ocr_id \in Ids(ocr_results)
       IN /\ (~found => envOk)
          /\ returned' = out.ret
          /\ performed' = out.performed
          /\ lastCall' = Call(kind, Some(ocr_id), found, found /\ ~envOk,
                              computed.shot, LatestImage(messages))
  /\ messages' = Append(messages, ToolOutput)
  /\ guiPc' = "llm_start"
  /\ UNCHANGED <<ocr_engine, ocr_results, computed, lastRun, shown, runVars, fnVars>>

\* The actor calls an operation of the interface proxy (GUIOperator.py lines
\* 39-88): it is forwarded, and what the environment raises is not caught.
\* After the action the history gains the screenshot that followed it.
Forward(op) ==
  /\ guiPc = "acting"
  /\ Len(messages) <= MaxToolCalls
  /\ \E envOk \in BOOLEAN :
       /\ lastCall' = Call(op, None, FALSE, ~envOk, computed.shot, LatestImage(messages))
       /\ IF envOk
            THEN /\ returned' = Ret("value", op, None, None, None, None)
                 /\ performed' = <<EnvOp(op, None, None)>>
                 /\ \E png \in BOOLEAN :
                      messages' = Append(messages,
                                         ScreenshotOutput(LatestImage(messages) + 1, png))
                 /\ guiPc' = "llm_start"
            ELSE /\ returned' = Ret("raise", op, None, None, None, None)
                 /\ performed' = << >>
                 /\ guiPc' = "raised"
                 /\ UNCHANGED messages
  /\ UNCHANGED <<ocr_engine, ocr_results, computed, lastRun, shown, runVars, fnVars>>

GuiNext ==
  \/ OnLlmStart
  \/ \E kind \in ClickKinds, ocr_id \in NamedIds : ClickById(kind, ocr_id)
  \/ \E op \in ForwardOps : Forward(op)

\* ------------------------------------------- functions on their own
\* The control loop and the visual actor stand still.
InitFn ==
  /\ Init
  /\ budget = Scenario(1, 0, 0, MaxSteps, FALSE, FALSE, 0)

\* the segments a content list is built from
Segments ==
  {TextPart("a"), TextPart("b"),
   ImagePart("image_url", 1, TRUE), ImagePart("image_url", 2, TRUE)}

Contents == UNION {[1..n -> Segments] : n \in 0..MaxParts}

\* the grounding sets whose listing is injected
ListedSets ==
  {{}, Enumerate(<<[content |-> "OK", bbox |-> <<10, 10, 50, 30>>]>>)}

\* _inject_ocr_into_messages applied to a history of one turn, or of the
\* seed turn of a delegation and one more turn
ApplyInject ==
  /\ applied.fn = NoApplication.fn
  /\ \E kind \in {"user", "assistant"}, content \in Contents, results \in ListedSets,
        earlier \in {<< >>, <<SeedMessage(1)>>} :
       LET msgs == earlier \o <<Turn(kind, content)>>
           ocr_text == FormatOcrText(results)
       IN applied' = [NoApplication EXCEPT
                        !.fn = "_inject_ocr_into_messages",
                        !.messages = msgs,
                        !.ocr_text = ocr_text,
                        !.shown = InjectOcrIntoMessages(msgs, ocr_text),
                        !.before = HeapOf(msgs),
                        !.input = 1,
                        !.after = InjectOnHeap(HeapOf(msgs), 1, ocr_text).heap,
                        !.output = InjectOnHeap(HeapOf(msgs), 1, ocr_text).ret]
  /\ UNCHANGED <<runVars, guiVars>>

\* what the engine may detect in one screenshot: confidences in hundredths
DetectionsOfEngine ==
  {Detection(txt, score, box) :
     txt \in {"OK", "Cancel"}, score \in {50, 89, 90, 95},
     box \in {Rect(10, 10, 50, 30), Rect(60, 10, 120, 30)}}

ResultsOfEngine ==
  {EngineResult("none", << >>), EngineResult("no_txts", << >>)}
    \cup {EngineResult("detections", dets) :
            dets \in UNION {[1..n -> DetectionsOfEngine] : n \in 0..MaxDetections}}

\* _perform_ocr applied to what the engine returned for one screenshot
ApplyPerformOcr ==
  /\ applied.fn = NoApplication.fn
  /\ \E result \in ResultsOfEngine :
       applied' = [NoApplication EXCEPT
                     !.fn = "_perform_ocr",
                     !.result = result,
                     !.results = PerformOcr(EngineOutcome("result", result)).results]
  /\ UNCHANGED <<runVars, guiVars>>

\* the four-point polygons the engine may return for a detection
Polygons == [1..4 -> (0..MaxCoord) \X (0..MaxCoord)]

\* check_ocr_result applied to a result with one detection
ApplyCheckOcrResult ==
  /\ applied.fn = NoApplication.fn
  /\ \E box \in Polygons, score \in {50, 95} :
       LET result == EngineResult("detections", <<Detection("OK", score, box)>>)
       IN applied' = [NoApplication EXCEPT
                        !.fn = "check_ocr_result",
                        !.result = result,
                        !.results = Enumerate(CheckOcrResult(result))]
  /\ UNCHANGED <<runVars, guiVars>>

\* the vertical amounts a scroll is asked with
ScrollAmounts == {-250, -200, -199, -100, -99, -1, 0, 1, 99, 100, 199, 200, 250}

\* GuiInterfaceProxy.scroll applied to one request, on an interface that
\* offers scroll_down and scroll_up or does not
ApplyScroll ==
  /\ applied.fn = NoApplication.fn
  /\ \E x \in {0, 5}, y \in {0, 7}, scroll_x \in {0, 30}, scroll_y \in ScrollAmounts,
        has_scroll_down \in BOOLEAN, has_scroll_up \in BOOLEAN :
       applied' = [NoApplication EXCEPT
                     !.fn = "scroll",
                     !.request = ScrollRequest(x, y, scroll_x, scroll_y, has_scroll_down,
                                               has_scroll_up),
                     !.op = Scroll(x, y, scroll_x, scroll_y, has_scroll_down,
                                   has_scroll_up)]
  /\ UNCHANGED <<runVars, guiVars>>

\* the turns a delegate may append to its sub-history: tool items without a
\* role, and assistant messages with a string or a list of typed parts
DelegateTurns ==
  {SubTurn("function_call", "", StrContent(""), 0),
   SubTurn("function_call_output", "", StrContent("ok"), 0),
   SubTurn("message", "assistant", StrContent("done"), 0),
   SubTurn("message", "assistant", StrContent(""), 0),
   SubTurn("message", "assistant", StrContent("made a function_call"), 0),
   SubTurn("message", "assistant", ListContent(<<"output_text">>), 0),
   SubTurn("message", "assistant", ListContent(<<"text", "tool_use">>), 0),
   SubTurn("message", "assistant", ListContent(<<"tool_result">>), 0)}

\* _extract_sub_agent_final_message applied to a sub-history: the seed turn
\* and what the delegate appended
ApplyExtractFinalMessage ==
  /\ applied.fn = NoApplication.fn
  /\ \E output \in UNION {[1..n -> DelegateTurns] : n \in 0..MaxTurns} :
       LET history == <<SeedTurn(1)>> \o output
       IN applied' = [NoApplication EXCEPT
                        !.fn = "_extract_sub_agent_final_message",
                        !.history = history,
                        !.final_message = ExtractFinalMessage(history)]
  /\ UNCHANGED <<runVars, guiVars>>

FnNext ==
  \/ ApplyInject
  \/ ApplyPerformOcr
  \/ ApplyCheckOcrResult
  \/ ApplyScroll
  \/ ApplyExtractFinalMessage

\* ------------------------------------------------------- specification
ControlNext ==
  \/ MainStart \/ RunStartServer \/ RunTaskStarted \/ RunAgentState \/ RunEnterLoop
  \/ ObserveOk \/ ObserveAppend \/ ObserveExcept \/ ObserveFail
  \/ Plan \/ FinishEvent \/ FinishBreak \/ Delegated \/ BuildSubHistory
  \/ Execute \/ ExecuteRaise \/ GroundingCall \/ GroundingUpdate
  \/ SummarizeShotOk \/ SummarizeShotFail \/ SummarizeAgentState \/ SummarizeEvent
  \/ SummarizeAppend
  \/ BcNext \/ BcSend \/ BcReturn \/ BcRaise
  \/ RunEnds \/ StopServer \/ ShutdownReset \/ CloseClients

ObserverNext ==
  \E w \in Conns : Connect(w) \/ Stall(w) \/ Close(w) \/ HandlerFinally(w)

Next == ControlNext \/ ObserverNext

Spec == Init /\ [][Next]_vars

\* the visual actor during one delegation
SpecGui == InitGui /\ [][GuiNext]_vars

\* one application of a function to one argument
SpecFn == InitFn /\ [][FnNext]_vars


\* ================================================================ claims
\* run has returned or raised and main is in its finally clause
RunOver ==
  \/ pc \in {"run_returned", "run_raised", "main_computer_stop", "ws_aexit_wait",
             "ws_close_clients", "main_done"}
  \/ pc \in {"bc_next", "bc_send", "bc_return", "bc_raise"} /\ bc.ret = "ws_close_clients"

HasEvent(type, step) ==
  \E n \in 1..Len(published) : published[n].type = type /\ published[n].step = step

\* C1: the planner is called at most 10 times in a run, and once the 10th
\* iteration has finished the run is over, whatever the planner returned.
C1_AtMostTenPlannerCalls ==
  /\ plannerCalls <= 10
  /\ i <= 10
  /\ i = 10 => RunOver /\ outcome = "exhausted" /\ error = "none"

C1_Witness ==
  /\ pc = "main_done"
  /\ plannerCalls = 10
  /\ outcome = "exhausted"
  /\ routed = MaxRouted

\* C2: when the planner issues task_completed on iteration k, the loop ends
\* after iteration k, a task_completed event with step k is published, no
\* delegate runs on iteration k and no screenshot is captured afterwards.
C2_FinishPublishesTaskCompleted ==
  finishAt > 0 =>
    /\ i + 1 = finishAt
    /\ captures = capturesAtFinish
    /\ pc \notin {"observing", "planning", "delegated", "build_sub_history",
                  "executing", "summarizing"}
    /\ RunOver => HasEvent("task_completed", finishAt)

\* C3 as stated: exhausting the 10 iterations publishes the terminal events
\* of an explicit finish (agent_state with every role idle, then
\* task_completed) and signals no error.
C3_ExhaustionPublishesTerminalEvents ==
  outcome = "exhausted" =>
    /\ error = "none"
    /\ \E a, b \in 1..Len(published) :
         /\ a < b
         /\ published[a].type = "agent_state" /\ published[a].processing = AllIdle
         /\ published[b].type = "task_completed"

\* C3 as amended: exhausting the 10 iterations makes run return without an
\* error, and the run has published neither a task_completed event nor an
\* agent_state event that marks every role idle.
C3_ExhaustionPublishesNoTerminalEvents ==
  outcome = "exhausted" =>
    /\ error = "none"
    /\ RunOver
    /\ \A n \in 1..Len(published) :
         /\ published[n].type # "task_completed"
         /\ ~(published[n].type = "agent_state" /\ published[n].processing = AllIdle)

C3_Witness ==
  /\ outcome = "exhausted"
  /\ pc = "main_done"
  /\ delegateRuns = MaxRouted
  /\ published[Len(published) - 1].type = "subtask_completed"

\* C4: however the run ends, the ui_reset of the shutdown is delivered to
\* every observer that was connected when the run ended.
C4_FinalResetDelivered ==
  pc = "main_done" => connectedAtRunEnd \subseteq resetDelivered

\* C5: a registration or unregistration during a suspended send never makes
\* broadcast_event raise, and the publish reaches every observer that stayed
\* registered throughout.
C5_ChurnNeverRaises ==
  /\ pc # "bc_raise"
  /\ pc = "bc_return" => (bc.snap \cap websocket_clients) \subseteq bc.delivered

\* C6: a publish in which exactly one send fails does not raise, reaches the
\* other observers and removes the failing one from the registry.
C6_OneFailedSendIsIsolated ==
  Cardinality(bc.failed) = 1 =>
    /\ pc # "bc_raise"
    /\ pc = "bc_return" =>
         /\ bc.failed \cap websocket_clients = {}
         /\ (bc.snap \cap websocket_clients) \subseteq bc.delivered

\* C7: a send that does not complete never blocks the control task: while
\* the send to a stalled observer is pending the control task can still take
\* a step.
C7_PublishNeverBlocks ==
  (pc = "bc_send" /\ conn[bc.target] = "slow") => ENABLED ControlNext

\* C8: an observer that connects after the registry became empty, before any
\* other event is published, receives ui_reset as its first message.
C8_ResetIsFirstMessage ==
  \A w \in Conns : fresh[w] # "other"

\* C9: a failed capture in Observing never aborts the run: the planner is
\* called and a routed delegate is executed; only the delegate's own failure
\* may end the run on such an iteration.
C9_ObservingFailureTolerated ==
  (obsFailed /\ error # "none") => (error = "DelegateError" /\ delegateRuns > 0)

\* C10: a failed capture in Summarizing never aborts the run: no capture
\* failure leaves run as an exception.
C10_SummarizingFailureTolerated ==
  error # "ScreenshotError"

\* the planner's last output held no function_call item
Abstained == plannerCalls > 0 /\ delegation = NoDelegation

\* C11: when the planner's whole output holds no function_call item the loop
\* ends on that iteration: run has returned without raising, no task_delegated
\* or subtask_completed event carries that step, and from the planner call on
\* no delegate runs, no screenshot is captured and the planner is not called.
C11_AbstentionEndsRun ==
  /\ [](Abstained =>
          /\ RunOver
          /\ outcome = "abstained"
          /\ error = "none"
          /\ plannerCalls = i + 1
          /\ ~HasEvent("task_delegated", i + 1)
          /\ ~HasEvent("subtask_completed", i + 1))
  /\ [][Abstained' => UNCHANGED <<captures, delegateRuns, orchestrator_history>>]_vars
  /\ [][Abstained => UNCHANGED plannerCalls]_vars

C11_Witness ==
  /\ Abstained
  /\ pc = "main_done"
  /\ outcome = "abstained"
  /\ delegateRuns >= 1
  /\ plannerCalls >= 2

\* the targets the loop recognises (lines 340, 358, 369)
Recognised == {"task_completed", "delegate_to_programmer", "delegate_to_gui_operator"}

TurnsOfType(type) ==
  {n \in 1..Len(orchestrator_history) : orchestrator_history[n].type = type}

HasResultTurn(call_id) ==
  \E n \in TurnsOfType("function_call_output") : orchestrator_history[n].call_id = call_id

C13_DelegateFailureAbortsRun ==
  /\ [](error = "DelegateError" =>
          /\ RunOver
          /\ outcome = "raised"
          /\ orchestrator_history[Len(orchestrator_history)] = delegation
          /\ ~HasResultTurn(delegation.call_id)
          /\ ~HasEvent("subtask_completed", i + 1))
  /\ [][error = "DelegateError" =>
          UNCHANGED <<plannerCalls, captures, delegateRuns, orchestrator_history>>]_vars

C13_Witness ==
  /\ error = "DelegateError"
  /\ pc = "main_done"
  /\ HasEvent("task_delegated", i + 1)
  /\ delegateRuns = MaxRouted

EventsOfType(type) == {n \in 1..Len(published) : published[n].type = type}

\* C14: a delegate executes only when every earlier execution has been
\* summarised: at most one execution is not yet summarised, none while a
\* delegate is running, and at every moment all task_delegated events but
\* possibly the last have their subtask_completed event.
C14_OneDelegateAtATime ==
  /\ delegateRuns - Cardinality(TurnsOfType("function_call_output")) \in {0, 1}
  /\ pc = "executing" => delegateRuns = Cardinality(TurnsOfType("function_call_output"))
  /\ Cardinality(EventsOfType("task_delegated"))
       - Cardinality(EventsOfType("subtask_completed")) \in {0, 1}
  /\ pc = "executing" =>
       Cardinality(EventsOfType("task_delegated"))
         = Cardinality(EventsOfType("subtask_completed")) + 1

C14_Witness ==
  /\ pc = "executing"
  /\ delegateRuns >= 1
  /\ sub_agent = "GUIOperator"
  /\ delegateRuns = Cardinality(TurnsOfType("function_call_output"))

\* C15: when one planning turn yields several function_call items, the
\* delegation is the first of them in output order, it is the only one of
\* them recorded in the coordinator history, and never more delegates have
\* run than routed delegations were recorded.
C15_OnlyFirstCallHonoured ==
  /\ callsOffered >= 2 =>
       /\ delegation.call_id = plannerCalls
       /\ Cardinality({n \in TurnsOfType("function_call") :
              orchestrator_history[n].call_id \in {plannerCalls, plannerCalls + 100}}) = 1
       /\ \E n \in TurnsOfType("function_call") : orchestrator_history[n] = delegation
  /\ \A n \in TurnsOfType("function_call") : orchestrator_history[n].call_id <= MaxSteps
  /\ delegateRuns <= Cardinality({n \in TurnsOfType("function_call") :
         orchestrator_history[n].name \in {"delegate_to_programmer", "delegate_to_gui_operator"}})

C15_Witness ==
  /\ callsOffered = 2
  /\ pc = "summarizing"
  /\ delegateRuns = 1
  /\ delegation.name = "delegate_to_gui_operator"

\* C16: a click-by-ID never resolves an ID against a grounding set computed
\* from a screenshot older than the most recent one the actor has been shown:
\* once on_llm_start has run, the entries that can be resolved come from the
\* latest screenshot of the history.
C16_NeverResolvesStaleSet ==
  /\ (guiPc = "acting" /\ ocr_results # {}) => computed.shot = LatestImage(messages)
  /\ (lastCall.op \in ClickKinds /\ lastCall.found) => lastCall.setShot = lastCall.seenShot

\* C17: after a computation the grounding set is exactly what that
\* computation retained: an ID of the previous set that the new one does not
\* assign is not found by get_ocr_bbox and get_ocr_content, and a click-by-ID
\* naming it returns not-found and does nothing.
C17_ComputeReplacesSet ==
  computed.count >= 1 =>
    /\ ocr_results = computed.out
    /\ \A ocr_id \in computed.prev \ Ids(computed.out) :
         /\ GetOcrBbox(ocr_results, ocr_id) = None
         /\ GetOcrContent(ocr_results, ocr_id) = None
    /\ (/\ guiPc = "llm_start"
        /\ lastCall.op \in ClickKinds
        /\ lastCall.id[1] \in computed.prev \ Ids(computed.out))
         => (returned.form = "not_found" /\ performed = << >>)

C17_Witness ==
  /\ guiPc = "llm_start"
  /\ computed.count >= 2
  /\ computed.shot = 2
  /\ computed.out # {}
  /\ lastCall.op = "click_ocr_text"
  /\ lastCall.id[1] \in computed.prev \ Ids(computed.out)
  /\ returned.form = "not_found"

\* C18: a click-by-ID naming an ID that is absent from the active grounding
\* set returns the not-found string naming that ID, raises nothing and does
\* nothing to the environment.
C18_MissingIdReturnsFailure ==
  (lastCall.op \in ClickKinds /\ ~lastCall.found) =>
    /\ returned.kind = "str"
    /\ returned.form = "not_found"
    /\ returned.id = lastCall.id
    /\ performed = << >>

C18_Witness ==
  /\ lastCall.op = "right_click_ocr_text"
  /\ ~lastCall.found
  /\ guiPc = "llm_start"
  /\ ocr_results # {}
  /\ returned.form = "not_found"
  /\ returned.id = Some(1)

\* C19 as stated: a click-by-ID naming an ID of the active grounding set, with
\* box (x1, y1, x2, y2), performs exactly one click of the requested kind at
\* ((x1+x2) div 2, (y1+y2) div 2) and returns the confirmation with the
\* entry's label and those coordinates.
C19_PresentIdClicksCentre ==
  (guiPc = "llm_start" /\ lastCall.op \in ClickKinds /\ lastCall.found) =>
    LET entry == CHOOSE e \in ocr_results : e.id = lastCall.id[1]
        x == (entry.bbox[1] + entry.bbox[3]) \div 2
        y == (entry.bbox[2] + entry.bbox[4]) \div 2
        click == CASE lastCall.op = "click_ocr_text" -> "left_click"
                   [] lastCall.op = "right_click_ocr_text" -> "right_click"
                   [] lastCall.op = "double_click_ocr_text" -> "double_click"
    IN /\ performed = <<EnvOp(click, Some(x), Some(y))>>
       /\ returned.kind = "str"
       /\ returned.form = "clicked"
       /\ returned.label = Some(IF entry.content # "" THEN entry.content
                                ELSE "ID " \o ToString(entry.id))
       /\ returned.x = Some(x)
       /\ returned.y = Some(y)

\* C19 as amended: the click is performed and confirmed as stated when the
\* environment's click succeeds; when it raises, nothing is recorded as
\* performed and the error string naming the ID is returned.
C19_PresentIdClicksCentreUnlessEnvFails ==
  (guiPc = "llm_start" /\ lastCall.op \in ClickKinds /\ lastCall.found) =>
    LET entry == CHOOSE e \in ocr_results : e.id = lastCall.id[1]
        x == (entry.bbox[1] + entry.bbox[3]) \div 2
        y == (entry.bbox[2] + entry.bbox[4]) \div 2
        click == CASE lastCall.op = "click_ocr_text" -> "left_click"
                   [] lastCall.op = "right_click_ocr_text" -> "right_click"
                   [] lastCall.op = "double_click_ocr_text" -> "double_click"
    IN IF lastCall.envFailed
         THEN /\ performed = << >>
              /\ returned.kind = "str"
              /\ returned.form = "click_error"
              /\ returned.id = lastCall.id
         ELSE /\ performed = <<EnvOp(click, Some(x), Some(y))>>
              /\ returned.kind = "str"
              /\ returned.form = "clicked"
              /\ returned.label = Some(IF entry.content # "" THEN entry.content
                                       ELSE "ID " \o ToString(entry.id))
              /\ returned.x = Some(x)
              /\ returned.y = Some(y)

C19_Witness ==
  /\ guiPc = "llm_start"
  /\ lastCall.op = "double_click_ocr_text"
  /\ lastCall.found
  /\ ~lastCall.envFailed
  /\ returned.label = Some("File")
  /\ returned.x = Some(22)
  /\ returned.y = Some(9)
  /\ performed = <<EnvOp("double_click", Some(22), Some(9))>>

\* C20: no operation of the proxy lets a failure of the environment reach its
\* caller as an exception: the failure comes back as a string.
C20_EnvFailureBecomesString ==
  lastCall.envFailed => returned.kind = "str"

\* a turn that carries image content, in a user content list or as the
\* output of a computer call
CarriesImage(turn) ==
  \E n \in 1..Len(turn.parts) : turn.parts[n].type \in {"image_url", "input_image"}

LatestImageTurn(msgs) == MaxOf({n \in 1..Len(msgs) : CarriesImage(msgs[n])})

\* the content with the listing directly after its most recent image
WithListingAfterLatestImage(content, ocr_text) ==
  LET latest == MaxOf({n \in 1..Len(content) :
                         content[n].type \in {"image_url", "input_image"}})
  IN SubSeq(content, 1, latest) \o <<InjectedText(ocr_text)>>
       \o SubSeq(content, latest + 1, Len(content))

\* C21: when on_llm_start has computed a grounding set, the history it
\* returns carries the listing in the most recent turn with image content,
\* directly after that turn's most recent image, and every other turn is as
\* it was.
C21_ListingOnlyInLatestImageTurn ==
  (guiPc = "acting" /\ lastRun.kind \in {"result", "call_raises"}) =>
    LET t == LatestImageTurn(messages)
    IN /\ Len(shown) = Len(messages)
       /\ shown[t].parts = WithListingAfterLatestImage(messages[t].parts,
                                                       FormatOcrText(ocr_results))
       /\ \A n \in 1..Len(messages) : n # t => shown[n] = messages[n]

OnLlmStartRaised == guiPc = "raised" /\ returned.kind # "raise"

\* C23: when the detection engine fails in on_llm_start, in its
\* initialisation or in the detection call, on_llm_start does not raise and
\* the active grounding set is empty.
C23_EngineFailureGivesEmptySet ==
  lastRun.kind \in {"init_raises", "call_raises"} =>
    (~OnLlmStartRaised /\ ocr_results = {})

\* the (text, box) pairs of a set in the order of their IDs
RECURSIVE InIdOrder(_)
InIdOrder(results) ==
  IF results = {} THEN << >>
  ELSE LET e == CHOOSE x \in results : \A y \in results : x.id <= y.id
       IN <<[content |-> e.content, bbox |-> e.bbox]>> \o InIdOrder(results \ {e})

\* the (text, box) pairs of the detections
PairsOf(dets) ==
  [n \in 1..Len(dets) |-> [content |-> dets[n].txt, bbox |-> BoundingBox(dets[n].box)]]

\* C24: a detection is in the computed grounding set exactly when its
\* confidence is at or above 0.9.
C24_RetainedIffAtOrAboveThreshold ==
  applied.fn = "_perform_ocr" =>
    InIdOrder(applied.results)
      = PairsOf(SelectSeq(applied.result.dets, LAMBDA d : d.score >= 90))

\* C25: the IDs of a computed set are 0..n-1 over the n retained
\* detections in detection order, dropped detections take no ID, each ID
\* clicks the centre of its box and any other ID is not found.
C25_IdsDenseInDetectionOrder ==
  applied.fn = "_perform_ocr" =>
    LET kept == SelectSeq(applied.result.dets, LAMBDA d : d.score > 90)
    IN /\ Ids(applied.results) = 0..(Len(kept) - 1)
       /\ \A n \in 1..Len(kept) :
            /\ GetOcrContent(applied.results, n - 1) = Some(kept[n].txt)
            /\ GetOcrBbox(applied.results, n - 1) = Some(BoundingBox(kept[n].box))
       /\ \A ocr_id \in 0..(MaxDetections + 1) :
            ocr_id >= Len(kept) =>
              /\ GetOcrBbox(applied.results, ocr_id) = None
              /\ ClickOcrText(applied.results, "click_ocr_text", ocr_id, TRUE).ret.form
                   = "not_found"

C25_Witness ==
  /\ applied.fn = "_perform_ocr"
  /\ applied.result.dets = <<Detection("Cancel", 50, Rect(60, 10, 120, 30)),
                          Detection("OK", 95, Rect(10, 10, 50, 30))>>
  /\ applied.results = {[id |-> 0, content |-> "OK", bbox |-> <<10, 10, 50, 30>>]}
  /\ ClickOcrText(applied.results, "click_ocr_text", 0, TRUE).performed
       = <<EnvOp("left_click", Some(30), Some(20))>>
  /\ ClickOcrText(applied.results, "click_ocr_text", 1, TRUE).ret.form = "not_found"

\* C26: an event is sent only to the observers that were registered when it
\* was published: an observer that registers later receives no event
\* published before its registration.
C26_LateJoinerGetsOnlyLaterEvents ==
  /\ bc.delivered \subseteq bc.snap
  /\ pc = "bc_send" => bc.target \in bc.snap

\* the discrete scroll the claim describes for a non-zero vertical amount
DiscreteScroll(scroll_y) ==
  LET magnitude == IF scroll_y < 0 THEN -scroll_y ELSE scroll_y
      clicks == IF magnitude \div 100 >= 1 THEN magnitude \div 100 ELSE 1
  IN EnvOp(IF scroll_y > 0 THEN "scroll_down" ELSE "scroll_up", Some(clicks), None)

C28_SeedIsLatestCapture ==
  (pc = "executing" /\ shots >= 1) => sub_agent_history[1].image = shots

\* C29: a delegate starts from a sub-history of exactly one turn, the seed
\* of this delegation; after its run the sub-history is that seed followed
\* by what this delegate produced, and what the coordinator history holds
\* of a delegation is the final message extracted from it.
C29_SubHistoryFreshAndScoped ==
  /\ pc = "executing" => sub_agent_history = <<SeedTurn(current_screenshot_b64)>>
  /\ pc \in {"summarizing", "sum_state", "sum_event", "sum_append"} =>
       \E output \in DelegateOutputs :
         sub_agent_history = <<SeedTurn(current_screenshot_b64)>> \o output
  /\ \A n \in TurnsOfType("function_call_output") :
       \E output \in DelegateOutputs :
         orchestrator_history[n].text
           = ExtractFinalMessage(<<SeedTurn(current_screenshot_b64)>> \o output)
  /\ \A n \in 1..Len(orchestrator_history) :
       orchestrator_history[n].type \in {"user", "function_call", "function_call_output"}

C29_Witness ==
  /\ pc = "executing"
  /\ delegateRuns = 1
  /\ Cardinality(TurnsOfType("function_call_output")) = 1
  /\ sub_agent_history = <<SeedTurn(3)>>

\* a turn of a delegate that carries a tool-invocation or tool-result
\* marker: a tool item, or a message one of whose parts is one
CarriesToolMarker(turn) ==
  \/ turn.type \in {"function_call", "function_call_output"}
  \/ /\ turn.content.kind = "list"
     /\ \E n \in 1..Len(turn.content.parts) :
          turn.content.parts[n] \in {"tool_use", "function_call", "tool_result"}

\* walking from the end, the content of the first turn without a marker
RECURSIVE CompletionMessage(_)
CompletionMessage(turns) ==
  IF turns = << >> THEN NoCompletionMessage
  ELSE IF ~CarriesToolMarker(turns[Len(turns)])
         THEN Str(turns[Len(turns)].content)
         ELSE CompletionMessage(SubSeq(turns, 1, Len(turns) - 1))

\* C30: the completion message of a delegation is the content of the last
\* turn the delegate produced that carries no tool-invocation or tool-result
\* marker, and the fixed sentinel when it produced only such turns.
C30_CompletionIsLastUnmarkedTurn ==
  applied.fn = "_extract_sub_agent_final_message" =>
    applied.final_message = CompletionMessage(Tail(applied.history))

\* the routed delegation of the iteration that has just ended: the loop is
\* back at its head (or past it) and the last delegation went to a delegate
DelegationCompleted ==
  /\ pc \in {"observing", "run_returned"}
  /\ delegation # NoDelegation
  /\ Route(delegation.name) \in {"Programmer", "GUIOperator"}

C32_HistoryAppendOnly ==
  [][/\ Len(orchestrator_history) <= Len(orchestrator_history')
     /\ SubSeq(orchestrator_history', 1, Len(orchestrator_history)) = orchestrator_history]_vars

C32_Witness ==
  /\ pc = "planning"
  /\ Len(orchestrator_history) = 7
  /\ orchestrator_history[3].type = "function_call_output"
  /\ orchestrator_history[6].type = "function_call_output"
  /\ orchestrator_history[7].type = "user"

\* C33: _inject_ocr_into_messages leaves its input unchanged: after the call
\* the list it was given, each message of it and each message's content list
\* hold what they held before, and the listing is in the returned history
\* only.
C33_InjectionLeavesInputUnchanged ==
  applied.fn = "_inject_ocr_into_messages" =>
    /\ applied.after.lists[applied.input] = applied.before.lists[applied.input]
    /\ \A n \in 1..Len(applied.before.lists[applied.input]) :
         LET m == applied.before.lists[applied.input][n]
         IN /\ applied.after.dicts[m] = applied.before.dicts[m]
            /\ applied.after.contents[applied.before.dicts[m].content]
                 = applied.before.contents[applied.before.dicts[m].content]
    /\ Deref(applied.after, applied.input) = applied.messages
    /\ Deref(applied.after, applied.output) = applied.shown
    /\ applied.output # applied.input

C33_Witness ==
  /\ applied.fn = "_inject_ocr_into_messages"
  /\ applied.messages = <<SeedMessage(1), Turn("user", <<TextPart("a")>>)>>
  /\ applied.ocr_text = "OCR-DETECTED TEXT ELEMENTS: None found"
  /\ Deref(applied.after, applied.output) # applied.messages
  /\ Len(applied.after.contents) = 4

\* the last on_llm_start ran the detection and came back with a grounding set
DetectionRan == lastRun.kind \in {"result", "call_raises"}

\* the text segment that tells the actor that nothing was found
NoneFoundMarker ==
  [type |-> "text", shot |-> NoShot, png |-> FALSE,
   text |-> "\nOCR-DETECTED TEXT ELEMENTS: None found\n"]

MinimalBoxOf(bbox, box) ==
  /\ \A n \in 1..Len(box) :
       /\ bbox[1] <= box[n][1] /\ box[n][1] <= bbox[3]
       /\ bbox[2] <= box[n][2] /\ box[n][2] <= bbox[4]
  /\ \E n \in 1..Len(box) : box[n][1] = bbox[1]
  /\ \E n \in 1..Len(box) : box[n][2] = bbox[2]
  /\ \E n \in 1..Len(box) : box[n][1] = bbox[3]
  /\ \E n \in 1..Len(box) : box[n][2] = bbox[4]

\* C35: the box computed for a retained detection has x1 <= x2 and y1 <= y2
\* and is the minimal axis-aligned box of the polygon's vertices.
C35_BoxIsMinimalEnclosingBox ==
  applied.fn \in {"check_ocr_result", "_perform_ocr"} =>
    \A e \in applied.results :
      LET kept == SelectSeq(applied.result.dets, LAMBDA d : Retained(d.score))
      IN /\ e.id + 1 \in 1..Len(kept)
         /\ e.bbox[1] <= e.bbox[3]
         /\ e.bbox[2] <= e.bbox[4]
         /\ MinimalBoxOf(e.bbox, kept[e.id + 1].box)

C35_Witness ==
  /\ applied.fn = "check_ocr_result"
  /\ applied.result.dets[1].box = <<<<2, 1>>, <<0, 0>>, <<1, 2>>, <<0, 1>>>>
  /\ applied.results = {[id |-> 0, content |-> "OK", bbox |-> <<0, 0, 2, 2>>]}

\* C36: when the handler of a closed connection that broadcast_event has
\* already removed from the registry runs its cleanup, the cleanup completes
\* without raising, and with the registry then empty the ui_reset broadcast is
\* attempted.
C36_CleanupAfterRemovalCompletes ==
  [][\A w \in Conns :
       (conn[w] = "closed" /\ conn'[w] # "closed" /\ w \notin websocket_clients) =>
         /\ conn'[w] = "done"
         /\ websocket_clients' = {} => handlerResets' = handlerResets + 1]_vars

\* C37: at every planner call, each delegation turn of the coordinator
\* history is directly followed by a result turn with the delegation's
\* call_id.
C37_PlannerSeesEveryDelegationWithResult ==
  pc = "planning" =>
    \A n \in TurnsOfType("function_call") :
      /\ n < Len(orchestrator_history)
      /\ orchestrator_history[n + 1].type = "function_call_output"
      /\ orchestrator_history[n + 1].call_id = orchestrator_history[n].call_id

\* the events of a type that carry a step
StepEvents(type, step) == {n \in EventsOfType(type) : published[n].step = step}

\* C38: every subtask_completed of step k is preceded by exactly one
\* task_delegated of step k, and after a task_delegated of step k no event of
\* a later step is published before the subtask_completed of step k (which
\* is missing only while the delegation is under way or when the run aborted
\* during it).
C38_DelegatedAndCompletedPairUp ==
  /\ \A n \in EventsOfType("subtask_completed") :
       LET k == published[n].step
       IN /\ Cardinality(StepEvents("task_delegated", k)) = 1
          /\ \A m \in StepEvents("task_delegated", k) :
               /\ m < n
               /\ published[m].tag = published[n].tag
  /\ \A m \in EventsOfType("task_delegated") :
       LET k == published[m].step
           done == {n \in StepEvents("subtask_completed", k) : n > m}
           upTo == IF done = {} THEN Len(published) ELSE MinOf(done)
       IN /\ \A n \in (m + 1)..upTo : published[n].step <= k
          /\ done = {} =>
               \/ i + 1 = k /\ pc \in {"bc_next", "bc_send", "bc_return", "bc_raise",
                                       "build_sub_history", "executing",
                                       "grounding_update", "summarizing",
                                       "sum_state", "sum_event"}
               \/ outcome = "raised"

C38_Witness ==
  /\ pc = "sum_append"
  /\ i = 1
  /\ Cardinality(EventsOfType("subtask_completed")) = 2
  /\ Cardinality(EventsOfType("task_delegated")) = 2
  /\ published[Len(published)] = Ev("subtask_completed", 2, {}, "Programmer")

\* the four roles of an agent_state event
Roles == {"orchestrator", "programmer", "gui_operator", "grounding_model"}

\* a delegate is executing: the control task is at line 408, or inside a
\* broadcast the delegate's runtime asked for
DelegateExecutes == pc \in {"executing", "grounding_update"}

\* C39: every agent_state event marks at most one of the four roles as
\* processing, and while a delegate executes no agent_state event published
\* since its task_delegated event marks the orchestrator as processing, nor
\* does the latest one.
C39_AtMostOneRoleProcessing ==
  /\ \A n \in EventsOfType("agent_state") :
       /\ published[n].processing \subseteq Roles
       /\ Cardinality(published[n].processing) <= 1
  /\ DelegateExecutes =>
       /\ EventsOfType("task_delegated") # {}
       /\ EventsOfType("agent_state") # {}
       /\ "orchestrator" \notin published[MaxOf(EventsOfType("agent_state"))].processing
       /\ \A n \in EventsOfType("agent_state") :
            n > MaxOf(EventsOfType("task_delegated")) =>
              "orchestrator" \notin published[n].processing

C39_Witness ==
  /\ pc = "executing"
  /\ i = 0
  /\ Cardinality({n \in EventsOfType("agent_state") :
                    published[n].step = 1
                      /\ published[n].processing = {"grounding_model"}}) = MaxGroundingCalls
  /\ published[Len(published)] = Ev("grounding_update", 1, {}, "completed")
  /\ published[Len(published) - 1] = Ev("agent_state", 1, {"gui_operator"}, "")

====
